---- MODULE Spec2Model ----
(***************************************************************************)
(* Registry of employees, truckers and their documents with an archival    *)
(* workflow (src/main.py lines 1-973, src/models.py, src/backend).         *)
(*                                                                         *)
(* The store is the SQLite file of database.py.  `db` is its committed     *)
(* content, one field per table of models.py.  A request handler runs in   *)
(* a session of SessionLocal: it reads, stages its writes and commits; a   *)
(* failed flush raises and get_db closes the session, which rolls the      *)
(* transaction back.                                                       *)
(***************************************************************************)
EXTENDS Integers, FiniteSets, Sequences, TLC

VARIABLES db, today, last, session, nreq, users, now, tokens

vars == <<db, today, last, session, nreq, users, now, tokens>>

\* The users table, the clock (in minutes) and the access tokens issued.
authvars == <<users, now, tokens>>

\* ---------------------------------------------------------------- bounds
\* Largest primary key handed out in the employees table.
MaxEmployeeId == 2
\* Largest primary key handed out in the truckers table.
MaxTruckerId == 1
\* Largest primary key handed out in the documents table.
MaxDocumentId == 2
\* Last calendar day of a behaviour (days are counted from 0).
MaxDay == 1
\* Largest days_old query parameter of the sweep.
MaxDaysOld == 1
\* Number of requests and day changes in a behaviour of Spec.
MaxOps == 5
\* Number of server processes that share the store in ConcSpec.
NumWorkers == 2
\* Largest primary key handed out to a trucker in RegistrySpec.
MaxRegistryTruckerId == 2
\* Number of requests in a behaviour of RegistrySpec.
MaxRegistryOps == 3
\* Number of requests in a behaviour of AuthSpec.
MaxAuthOps == 2
\* Number of clock steps of TICK_MINUTES minutes in AuthSpec.
MaxTicks == 4

\* Python's None for a nullable column or an optional field.
None == -1
\* None in a string column or field.
NULL == "NULL"

\* HTTP status codes returned by the handlers.
HTTP_201_CREATED == 201
HTTP_200_OK == 200
HTTP_204_NO_CONTENT == 204
HTTP_404_NOT_FOUND == 404
HTTP_400_BAD_REQUEST == 400
HTTP_401_UNAUTHORIZED == 401
HTTP_403_FORBIDDEN == 403
HTTP_422_UNPROCESSABLE == 422
\* An exception that no handler catches (sqlalchemy IntegrityError).
HTTP_500_INTERNAL_ERROR == 500

Emails == {"a1@x.com", "b@x.com"}
Licenses == {"L1", "L2"}
\* Values of the optional truck_id_number and email of a trucker.
TruckIdNumbers == {NULL, "T1"}
TruckerEmails == {NULL, "t@x.com"}
Days == 0..MaxDay
DaysOld == (0 - 1)..MaxDaysOld

MANUAL_REASON == "Manual deletion from active records."

Max(S) == CHOOSE m \in S : \A x \in S : x <= m

Ids(table) == {r.id : r \in table}

\* An INTEGER PRIMARY KEY column of SQLite without AUTOINCREMENT: the new
\* rowid is one more than the largest rowid currently in the table.
NextId(table) == IF table = {} THEN 1 ELSE Max(Ids(table)) + 1

\* The row of a table with primary key id, as a set (empty when absent).
ById(table, id) == {r \in table : r.id = id}

\* Overwrite the fields of row that the patch carries (setattr per item of
\* model_dump(exclude_unset=True)).
SetAttrs(row, patch) ==
    [k \in DOMAIN row |-> IF k \in DOMAIN patch THEN patch[k] ELSE row[k]]

EmptyDb ==
    [employees |-> {}, truckers |-> {}, documents |-> {},
     archived_employees |-> {}, archived_truckers |-> {},
     archived_documents |-> {}]


\* ------------------------------------------------------- the transaction
\* Mutation: the archive tables declare original_id without unique=True.
IntegrityOk_NoUniqueOriginalId(d) ==
    /\ \A t \in {d.employees, d.truckers, d.documents, d.archived_employees,
                 d.archived_truckers, d.archived_documents} :
          \A r1, r2 \in t : r1.id = r2.id => r1 = r2
    /\ \A r1, r2 \in d.employees : r1.email = r2.email => r1 = r2
    /\ \A r1, r2 \in d.truckers :
          \/ r1 = r2
          \/ /\ r1.driver_license_number # r2.driver_license_number
             /\ (r1.truck_id_number = NULL
                   \/ r1.truck_id_number # r2.truck_id_number)
             /\ (r1.email = NULL \/ r1.email # r2.email)

\* Mutation: the person tables declare their columns without unique=True.
IntegrityOk_NoUniquePersonColumns(d) ==
    /\ \A t \in {d.employees, d.truckers, d.documents, d.archived_employees,
                 d.archived_truckers, d.archived_documents} :
          \A r1, r2 \in t : r1.id = r2.id => r1 = r2
    /\ \A r1, r2 \in d.archived_employees :
          r1.original_id = r2.original_id => r1 = r2
    /\ \A r1, r2 \in d.archived_truckers :
          r1.original_id = r2.original_id => r1 = r2
    /\ \A r1, r2 \in d.archived_documents :
          r1.original_id = r2.original_id => r1 = r2

\* UNIQUE and PRIMARY KEY constraints of models.py, as the store checks
\* them when a session flushes.
IntegrityOk(d) ==
    /\ \A t \in {d.employees, d.truckers, d.documents, d.archived_employees,
                 d.archived_truckers, d.archived_documents} :
          \A r1, r2 \in t : r1.id = r2.id => r1 = r2
    /\ \A r1, r2 \in d.employees : r1.email = r2.email => r1 = r2
    /\ \A r1, r2 \in d.truckers :
          \/ r1 = r2
          \/ /\ r1.driver_license_number # r2.driver_license_number
             /\ (r1.truck_id_number = NULL
                   \/ r1.truck_id_number # r2.truck_id_number)
             /\ (r1.email = NULL \/ r1.email # r2.email)
    /\ \A r1, r2 \in d.archived_employees :
          r1.original_id = r2.original_id => r1 = r2
    /\ \A r1, r2 \in d.archived_truckers :
          r1.original_id = r2.original_id => r1 = r2
    /\ \A r1, r2 \in d.archived_documents :
          r1.original_id = r2.original_id => r1 = r2

\* Mutation: the deletes are committed on their own, so a failed snapshot
\* INSERT no longer undoes them.
Commit_KeepDeletes(before, staged, status) ==
    IF IntegrityOk(staged)
    THEN [db |-> staged, status |-> status]
    ELSE [db |-> [staged EXCEPT
                    !.archived_employees = before.archived_employees,
                    !.archived_truckers = before.archived_truckers,
                    !.archived_documents = before.archived_documents],
          status |-> HTTP_500_INTERNAL_ERROR]

\* db.commit() of a request-scoped session: the staged state becomes the
\* committed one, or the flush raises IntegrityError, the handler ends with
\* an unhandled exception and get_db's db.close() discards the transaction.
Commit(before, staged, status) ==
    IF IntegrityOk(staged)
    THEN [db |-> staged, status |-> status]
    ELSE [db |-> before, status |-> HTTP_500_INTERNAL_ERROR]

\* Mutation: the snapshot is written with INSERT OR REPLACE, so a row with
\* the same original_id gives way to the new one.
Insert_OrReplace(table, snaps) ==
    {a \in table : a.original_id \notin {s.original_id : s \in snaps}}
    \cup
    { [s EXCEPT !.id = NextId(table)
           + Cardinality({t \in snaps : t.original_id < s.original_id})]
      : s \in snaps }

\* INSERT of snapshot rows (their primary key still None) into an archive
\* table; the store assigns the primary keys in insertion order.
Insert(table, snaps) ==
    table \cup
    { [s EXCEPT !.id = NextId(table)
           + Cardinality({t \in snaps : t.original_id < s.original_id})]
      : s \in snaps }

\* ------------------------------------------------------------- snapshots
ArchivedEmployee(emp, reason) ==
    [id |-> None, original_id |-> emp.id, email |-> emp.email,
     is_active |-> emp.is_active,
     registration_date |-> emp.registration_date,
     archive_date |-> today, archived_reason |-> reason]

ArchivedTrucker(truck, reason) ==
    [id |-> None, original_id |-> truck.id,
     driver_license_number |-> truck.driver_license_number,
     truck_id_number |-> truck.truck_id_number, email |-> truck.email,
     is_active |-> truck.is_active,
     registration_date |-> truck.registration_date,
     archive_date |-> today, archived_reason |-> reason]

ArchivedDocument(doc, reason) ==
    [id |-> None, original_id |-> doc.id, upload_date |-> doc.upload_date,
     is_verified |-> doc.is_verified,
     verification_date |-> doc.verification_date,
     employee_id |-> doc.employee_id, trucker_id |-> doc.trucker_id,
     archive_date |-> today, archived_reason |-> reason]

\* ------------------------------------------------------------- employees
\* POST /employees/
register_employee(d, email) ==
    IF \E e \in d.employees : e.email = email
    THEN [db |-> d, status |-> HTTP_400_BAD_REQUEST, body |-> <<>>]
    ELSE LET db_employee ==
                 [id |-> NextId(d.employees), email |-> email,
                  is_active |-> TRUE, registration_date |-> today]
             r == Commit(d, [d EXCEPT !.employees = @ \cup {db_employee}],
                         HTTP_201_CREATED)
         IN [db |-> r.db, status |-> r.status,
             body |-> IF r.status = HTTP_201_CREATED
                      THEN <<db_employee>> ELSE <<>>]

\* PUT /employees/{employee_id}
update_employee(d, employee_id, patch) ==
    IF ById(d.employees, employee_id) = {}
    THEN [db |-> d, status |-> HTTP_404_NOT_FOUND]
    ELSE LET db_employee == CHOOSE e \in d.employees : e.id = employee_id
         IN Commit(d,
                   [d EXCEPT !.employees =
                       (@ \ {db_employee}) \cup {SetAttrs(db_employee, patch)}],
                   HTTP_200_OK)

\* Mutation: delete_employee without its db.delete(db_employee).
StageDeleteEmployee_KeepRow(d, db_employee) ==
    [d EXCEPT
       !.archived_employees =
           Insert(@, {ArchivedEmployee(db_employee, MANUAL_REASON)}),
       !.documents = {x \in @ : x.employee_id # db_employee.id}]

\* The writes delete_employee stages for the row it loaded: the snapshot,
\* the bulk DELETE of the owner's documents and the DELETE of the row.
StageDeleteEmployee(d, db_employee) ==
    [d EXCEPT
       !.archived_employees =
           Insert(@, {ArchivedEmployee(db_employee, MANUAL_REASON)}),
       !.documents = {x \in @ : x.employee_id # db_employee.id},
       !.employees = {e \in @ : e.id # db_employee.id}]

\* DELETE /employees/{employee_id}
delete_employee(d, employee_id) ==
    IF ById(d.employees, employee_id) = {}
    THEN [db |-> d, status |-> HTTP_404_NOT_FOUND]
    ELSE LET db_employee == CHOOSE e \in d.employees : e.id = employee_id
         IN Commit(d, StageDeleteEmployee(d, db_employee),
                   HTTP_204_NO_CONTENT)

\* -------------------------------------------------------------- truckers
\* Mutation: the new trucker row is built without the optional email.
register_trucker_DropEmail(d, trucker) ==
    IF \E t \in d.truckers :
           t.driver_license_number = trucker.driver_license_number
    THEN [db |-> d, status |-> HTTP_400_BAD_REQUEST, body |-> <<>>]
    ELSE LET db_trucker ==
                 [id |-> NextId(d.truckers),
                  driver_license_number |-> trucker.driver_license_number,
                  truck_id_number |-> trucker.truck_id_number,
                  email |-> NULL,
                  is_active |-> TRUE, registration_date |-> today]
             r == Commit(d, [d EXCEPT !.truckers = @ \cup {db_trucker}],
                         HTTP_201_CREATED)
         IN [db |-> r.db, status |-> r.status,
             body |-> IF r.status = HTTP_201_CREATED
                      THEN <<db_trucker>> ELSE <<>>]

\* POST /truckers/
register_trucker(d, trucker) ==
    IF \E t \in d.truckers :
           t.driver_license_number = trucker.driver_license_number
    THEN [db |-> d, status |-> HTTP_400_BAD_REQUEST, body |-> <<>>]
    ELSE IF /\ trucker.truck_id_number # NULL
            /\ \E t \in d.truckers :
                   t.truck_id_number = trucker.truck_id_number
    THEN [db |-> d, status |-> HTTP_400_BAD_REQUEST, body |-> <<>>]
    ELSE LET db_trucker ==
                 [id |-> NextId(d.truckers),
                  driver_license_number |-> trucker.driver_license_number,
                  truck_id_number |-> trucker.truck_id_number,
                  email |-> trucker.email,
                  is_active |-> TRUE, registration_date |-> today]
             r == Commit(d, [d EXCEPT !.truckers = @ \cup {db_trucker}],
                         HTTP_201_CREATED)
         IN [db |-> r.db, status |-> r.status,
             body |-> IF r.status = HTTP_201_CREATED
                      THEN <<db_trucker>> ELSE <<>>]

\* PUT /truckers/{trucker_id}
update_trucker(d, trucker_id, patch) ==
    IF ById(d.truckers, trucker_id) = {}
    THEN [db |-> d, status |-> HTTP_404_NOT_FOUND]
    ELSE LET db_trucker == CHOOSE t \in d.truckers : t.id = trucker_id
         IN Commit(d,
                   [d EXCEPT !.truckers =
                       (@ \ {db_trucker}) \cup {SetAttrs(db_trucker, patch)}],
                   HTTP_200_OK)

\* The writes delete_trucker stages for the row it loaded.
StageDeleteTrucker(d, db_trucker) ==
    [d EXCEPT
       !.archived_truckers =
           Insert(@, {ArchivedTrucker(db_trucker, MANUAL_REASON)}),
       !.documents = {x \in @ : x.trucker_id # db_trucker.id},
       !.truckers = {t \in @ : t.id # db_trucker.id}]

\* DELETE /truckers/{trucker_id}
delete_trucker(d, trucker_id) ==
    IF ById(d.truckers, trucker_id) = {}
    THEN [db |-> d, status |-> HTTP_404_NOT_FOUND]
    ELSE LET db_trucker == CHOOSE t \in d.truckers : t.id = trucker_id
         IN Commit(d, StageDeleteTrucker(d, db_trucker),
                   HTTP_204_NO_CONTENT)

\* ------------------------------------------------------------- documents
\* Python truthiness of an Optional[int].
Truthy(x) == x # None /\ x # 0

\* Mutation: model_post_init only rejects a body without any owner.
DocumentCreateValid_AllowBoth(employee_id, trucker_id) ==
    ~ (employee_id = None /\ trucker_id = None)

\* DocumentCreate.model_post_init: exactly one owner must be given.
DocumentCreateValid(employee_id, trucker_id) ==
    ~ \/ (employee_id # None /\ trucker_id # None)
      \/ (employee_id = None /\ trucker_id = None)

\* POST /documents/
upload_document(d, employee_id, trucker_id) ==
    IF ~DocumentCreateValid(employee_id, trucker_id)
    THEN [db |-> d, status |-> HTTP_422_UNPROCESSABLE, body |-> <<>>]
    ELSE LET person ==
                 IF Truthy(employee_id) THEN ById(d.employees, employee_id)
                 ELSE IF Truthy(trucker_id) THEN ById(d.truckers, trucker_id)
                 ELSE {}
             db_document ==
                 [id |-> NextId(d.documents),
                  upload_date |-> today, is_verified |-> FALSE,
                  verification_date |-> None,
                  employee_id |-> employee_id, trucker_id |-> trucker_id]
             r == Commit(d, [d EXCEPT !.documents = @ \cup {db_document}],
                         HTTP_201_CREATED)
         IN IF person = {}
            THEN [db |-> d, status |-> HTTP_404_NOT_FOUND, body |-> <<>>]
            ELSE [db |-> r.db, status |-> r.status,
                  body |-> IF r.status = HTTP_201_CREATED
                           THEN <<db_document>> ELSE <<>>]

\* PUT /documents/{document_id}
update_document(d, document_id, patch) ==
    IF ById(d.documents, document_id) = {}
    THEN [db |-> d, status |-> HTTP_404_NOT_FOUND]
    ELSE LET db_document == CHOOSE x \in d.documents : x.id = document_id
             stamped ==
                 IF /\ "is_verified" \in DOMAIN patch
                    /\ patch.is_verified = TRUE
                    /\ db_document.is_verified = FALSE
                 THEN [db_document EXCEPT !.verification_date = today]
                 ELSE db_document
         IN Commit(d,
                   [d EXCEPT !.documents =
                       (@ \ {db_document}) \cup {SetAttrs(stamped, patch)}],
                   HTTP_200_OK)

\* Mutation: delete_document without its db.delete(db_document).
StageDeleteDocument_KeepRow(d, db_document) ==
    [d EXCEPT
       !.archived_documents =
           Insert(@, {ArchivedDocument(db_document, MANUAL_REASON)})]

\* The writes delete_document stages for the row it loaded.
StageDeleteDocument(d, db_document) ==
    [d EXCEPT
       !.archived_documents =
           Insert(@, {ArchivedDocument(db_document, MANUAL_REASON)}),
       !.documents = {x \in @ : x.id # db_document.id}]

\* DELETE /documents/{document_id}
delete_document(d, document_id) ==
    IF ById(d.documents, document_id) = {}
    THEN [db |-> d, status |-> HTTP_404_NOT_FOUND]
    ELSE LET db_document == CHOOSE x \in d.documents : x.id = document_id
         IN Commit(d, StageDeleteDocument(d, db_document),
                   HTTP_204_NO_CONTENT)

\* ----------------------------------------------------------------- sweep
EMPLOYEE_SWEEP_REASON(days_old) ==
    "Automated archive: inactive or older than " \o ToString(days_old)
        \o " days."

DOCUMENT_SWEEP_REASON(days_old) ==
    "Automated archive: uploaded more than " \o ToString(days_old)
        \o " days ago."

\* The sweep's three queries.
InactiveEmployees(d, cutoff_date) ==
    {e \in d.employees :
        e.is_active = FALSE \/ e.registration_date < cutoff_date}

InactiveTruckers(d, cutoff_date) ==
    {t \in d.truckers :
        t.is_active = FALSE \/ t.registration_date < cutoff_date}

OldDocuments(d, cutoff_date) ==
    {x \in d.documents : x.upload_date < cutoff_date}

\* Mutation: the employee query joins its two conditions with AND.
SweepEmployees_And(d, cutoff_date) ==
    {emp \in {e \in d.employees :
                e.is_active = FALSE /\ e.registration_date < cutoff_date} :
        ~ \E a \in d.archived_employees : a.original_id = emp.id}

\* The rows of each query that pass the "not already archived" test of
\* its loop.
SweepEmployees(d, cutoff_date) ==
    {emp \in InactiveEmployees(d, cutoff_date) :
        ~ \E a \in d.archived_employees : a.original_id = emp.id}

SweepTruckers(d, cutoff_date) ==
    {truck \in InactiveTruckers(d, cutoff_date) :
        ~ \E a \in d.archived_truckers : a.original_id = truck.id}

SweepDocuments(d, cutoff_date) ==
    {doc \in OldDocuments(d, cutoff_date) :
        ~ \E a \in d.archived_documents : a.original_id = doc.id}

\* Mutation: the `documents` relationships carry no delete cascade.
StageSweep_NoCascade(d, emps, trucks, docs, days_old) ==
    [d EXCEPT
       !.archived_employees =
           Insert(@, {ArchivedEmployee(e, EMPLOYEE_SWEEP_REASON(days_old))
                        : e \in emps}),
       !.archived_truckers =
           Insert(@, {ArchivedTrucker(t, EMPLOYEE_SWEEP_REASON(days_old))
                        : t \in trucks}),
       !.archived_documents =
           Insert(@, {ArchivedDocument(x, DOCUMENT_SWEEP_REASON(days_old))
                        : x \in docs}),
       !.employees = {e \in @ : e.id \notin Ids(emps)},
       !.truckers = {t \in @ : t.id \notin Ids(trucks)},
       !.documents = {x \in @ : x.id \notin Ids(docs)}]

\* The writes the sweep stages: one snapshot and one ORM delete per row
\* that passed its guard.  Deleting a person through the ORM also deletes
\* the documents of its `documents` relationship (cascade="all,
\* delete-orphan").
StageSweep(d, emps, trucks, docs, days_old) ==
    [d EXCEPT
       !.archived_employees =
           Insert(@, {ArchivedEmployee(e, EMPLOYEE_SWEEP_REASON(days_old))
                        : e \in emps}),
       !.archived_truckers =
           Insert(@, {ArchivedTrucker(t, EMPLOYEE_SWEEP_REASON(days_old))
                        : t \in trucks}),
       !.archived_documents =
           Insert(@, {ArchivedDocument(x, DOCUMENT_SWEEP_REASON(days_old))
                        : x \in docs}),
       !.employees = {e \in @ : e.id \notin Ids(emps)},
       !.truckers = {t \in @ : t.id \notin Ids(trucks)},
       !.documents = {x \in @ : /\ x.id \notin Ids(docs)
                                /\ x.employee_id \notin Ids(emps)
                                /\ x.trucker_id \notin Ids(trucks)}]

\* Mutation: the counters are incremented for every selected row, outside
\* the "not already archived" test.
manual_archive_trigger_CountSelected(d, days_old) ==
    LET cutoff_date == today - days_old
        emps == SweepEmployees(d, cutoff_date)
        trucks == SweepTruckers(d, cutoff_date)
        docs == SweepDocuments(d, cutoff_date)
        r == Commit(d, StageSweep(d, emps, trucks, docs, days_old),
                    HTTP_200_OK)
    IN [db |-> r.db, status |-> r.status,
        body |-> IF r.status = HTTP_200_OK
                 THEN <<Cardinality(InactiveEmployees(d, cutoff_date)),
                        Cardinality(InactiveTruckers(d, cutoff_date)),
                        Cardinality(OldDocuments(d, cutoff_date))>>
                 ELSE <<>>]

\* Mutation: archived_documents reports every document the sweep removed,
\* those that left through the cascade of their owner included.
manual_archive_trigger_CountCascaded(d, days_old) ==
    LET cutoff_date == today - days_old
        emps == SweepEmployees(d, cutoff_date)
        trucks == SweepTruckers(d, cutoff_date)
        docs == SweepDocuments(d, cutoff_date)
        r == Commit(d, StageSweep(d, emps, trucks, docs, days_old),
                    HTTP_200_OK)
    IN [db |-> r.db, status |-> r.status,
        body |-> IF r.status = HTTP_200_OK
                 THEN <<Cardinality(emps), Cardinality(trucks),
                        Cardinality(d.documents)
                            - Cardinality(r.db.documents)>>
                 ELSE <<>>]

\* POST /archive/manual_trigger?days_old=N
manual_archive_trigger(d, days_old) ==
    LET cutoff_date == today - days_old
        emps == SweepEmployees(d, cutoff_date)
        trucks == SweepTruckers(d, cutoff_date)
        docs == SweepDocuments(d, cutoff_date)
        r == Commit(d, StageSweep(d, emps, trucks, docs, days_old),
                    HTTP_200_OK)
    IN [db |-> r.db, status |-> r.status,
        body |-> IF r.status = HTTP_200_OK
                 THEN <<Cardinality(emps), Cardinality(trucks),
                        Cardinality(docs)>>
                 ELSE <<>>]

\* ---------------------------------------------------------------- reads
\* GET /employees/{employee_id}
get_employee(d, employee_id) ==
    IF ById(d.employees, employee_id) = {}
    THEN [db |-> d, status |-> HTTP_404_NOT_FOUND, body |-> <<>>]
    ELSE [db |-> d, status |-> HTTP_200_OK,
          body |-> <<CHOOSE e \in d.employees : e.id = employee_id>>]

\* GET /truckers/{trucker_id}
get_trucker(d, trucker_id) ==
    IF ById(d.truckers, trucker_id) = {}
    THEN [db |-> d, status |-> HTTP_404_NOT_FOUND, body |-> <<>>]
    ELSE [db |-> d, status |-> HTTP_200_OK,
          body |-> <<CHOOSE t \in d.truckers : t.id = trucker_id>>]

\* GET /documents/{document_id}
get_document(d, document_id) ==
    IF ById(d.documents, document_id) = {}
    THEN [db |-> d, status |-> HTTP_404_NOT_FOUND, body |-> <<>>]
    ELSE [db |-> d, status |-> HTTP_200_OK,
          body |-> <<CHOOSE x \in d.documents : x.id = document_id>>]

\* ---------------------------------------------------------------- search
DIGITS == "0123456789"
UPPERCASE == "ABCDEFGHIJKLMNOPQRSTUVWXYZ"
LOWERCASE == "abcdefghijklmnopqrstuvwxyz"

\* The position of a character in an alphabet, 0 when it is not in it.
IndexIn(alphabet, c) ==
    IF \E i \in 1..Len(alphabet) : SubSeq(alphabet, i, i) = c
    THEN CHOOSE i \in 1..Len(alphabet) : SubSeq(alphabet, i, i) = c
    ELSE 0

\* int(query) raises ValueError unless the text is a decimal number (the
\* queries of the model carry no sign, blank or underscore).
IsInt(query) ==
    /\ query # ""
    /\ \A i \in 1..Len(query) : IndexIn(DIGITS, SubSeq(query, i, i)) # 0

RECURSIVE IntOf(_)
IntOf(query) ==
    IF query = "" THEN 0
    ELSE LET n == Len(query)
         IN 10 * IntOf(SubSeq(query, 1, n - 1))
              + IndexIn(DIGITS, SubSeq(query, n, n)) - 1

RECURSIVE Lower(_)
Lower(text) ==
    IF text = "" THEN ""
    ELSE LET c == SubSeq(text, 1, 1)
             i == IndexIn(UPPERCASE, c)
         IN (IF i = 0 THEN c ELSE SubSeq(LOWERCASE, i, i))
                \o Lower(SubSeq(text, 2, Len(text)))

\* column.ilike("%query%") for a query without the wildcards % and _ : a
\* case-insensitive substring test that a NULL column never passes.
ILike(column, query) ==
    /\ column # NULL
    /\ LET c == Lower(column)
           q == Lower(query)
       IN \E i \in 1..(Len(c) - Len(q) + 1) :
              SubSeq(c, i, i + Len(q) - 1) = q

\* The rows of a query in primary key order.
RECURSIVE InIdOrder(_)
InIdOrder(rows) ==
    IF rows = {} THEN <<>>
    ELSE LET r == CHOOSE x \in rows : \A y \in rows : x.id <= y.id
         IN <<r>> \o InIdOrder(rows \ {r})

EmployeeResult(employee) ==
    [type |-> "employee", id |-> employee.id,
     identifier |-> employee.email, is_active |-> employee.is_active]

TruckerResult(trucker) ==
    [type |-> "trucker", id |-> trucker.id,
     identifier |-> trucker.driver_license_number,
     is_active |-> trucker.is_active]

\* results.append(...) for each row of a string query that is "not
\* already found by ID".
RECURSIVE AppendNew(_, _)
AppendNew(results, found_by_string) ==
    IF found_by_string = <<>> THEN results
    ELSE LET r == Head(found_by_string)
             found == \E i \in 1..Len(results) :
                          results[i].id = r.id /\ results[i].type = r.type
         IN AppendNew(IF found THEN results ELSE Append(results, r),
                      Tail(found_by_string))

\* Mutation: the string pass appends every row it finds.
live_search_NoDedup(d, query) ==
    LET by_id ==
            IF IsInt(query)
            THEN InIdOrder({EmployeeResult(e) :
                               e \in ById(d.employees, IntOf(query))})
                 \o InIdOrder({TruckerResult(t) :
                               t \in ById(d.truckers, IntOf(query))})
            ELSE <<>>
        employees_by_string ==
            InIdOrder({e \in d.employees : ILike(e.email, query)})
        truckers_by_string ==
            InIdOrder({t \in d.truckers :
                          \/ ILike(t.email, query)
                          \/ ILike(t.driver_license_number, query)
                          \/ ILike(t.truck_id_number, query)})
    IN [db |-> d, status |-> HTTP_200_OK,
        body |-> by_id
                   \o [i \in 1..Len(employees_by_string) |->
                          EmployeeResult(employees_by_string[i])]
                   \o [i \in 1..Len(truckers_by_string) |->
                          TruckerResult(truckers_by_string[i])]]

\* Mutation: the employee queries of the search also read the snapshots
\* of archived_employees.
live_search_WithArchive(d, query) ==
    LET employees ==
            d.employees \cup
                {[id |-> a.original_id, email |-> a.email,
                  is_active |-> a.is_active,
                  registration_date |-> a.registration_date]
                   : a \in d.archived_employees}
        by_id ==
            IF IsInt(query)
            THEN InIdOrder({EmployeeResult(e) :
                               e \in ById(employees, IntOf(query))})
                 \o InIdOrder({TruckerResult(t) :
                               t \in ById(d.truckers, IntOf(query))})
            ELSE <<>>
        employees_by_string ==
            InIdOrder({e \in employees : ILike(e.email, query)})
        truckers_by_string ==
            InIdOrder({t \in d.truckers :
                          \/ ILike(t.email, query)
                          \/ ILike(t.driver_license_number, query)
                          \/ ILike(t.truck_id_number, query)})
    IN [db |-> d, status |-> HTTP_200_OK,
        body |-> AppendNew(
                     AppendNew(by_id,
                               [i \in 1..Len(employees_by_string) |->
                                   EmployeeResult(employees_by_string[i])]),
                     [i \in 1..Len(truckers_by_string) |->
                         TruckerResult(truckers_by_string[i])])]

\* GET /search/?query=...
live_search(d, query) ==
    LET by_id ==
            IF IsInt(query)
            THEN InIdOrder({EmployeeResult(e) :
                               e \in ById(d.employees, IntOf(query))})
                 \o InIdOrder({TruckerResult(t) :
                               t \in ById(d.truckers, IntOf(query))})
            ELSE <<>>
        employees_by_string ==
            InIdOrder({e \in d.employees : ILike(e.email, query)})
        truckers_by_string ==
            InIdOrder({t \in d.truckers :
                          \/ ILike(t.email, query)
                          \/ ILike(t.driver_license_number, query)
                          \/ ILike(t.truck_id_number, query)})
    IN [db |-> d, status |-> HTTP_200_OK,
        body |-> AppendNew(
                     AppendNew(by_id,
                               [i \in 1..Len(employees_by_string) |->
                                   EmployeeResult(employees_by_string[i])]),
                     [i \in 1..Len(truckers_by_string) |->
                         TruckerResult(truckers_by_string[i])])]

\* ------------------------------------------------------- authentication
SECRET_KEY == "SECRET_KEY"
ACCESS_TOKEN_EXPIRE_MINUTES == 30
\* Length of one step of the clock.
TICK_MINUTES == 10

UserNames == {"admin", "clerk", "guest"}
Passwords == {"secret", "wrong!"}

\* pwd_context.hash and pwd_context.verify: a hash verifies exactly the
\* password it was made from.
get_password_hash(password) == "bcrypt:" \o password

verify_password(plain_password, hashed_password) ==
    hashed_password = get_password_hash(plain_password)

User(username, is_active, is_admin) ==
    [username |-> username,
     hashed_password |-> get_password_hash("secret"),
     is_active |-> is_active, is_admin |-> is_admin]

\* The users table once the first administrator has been set up and has
\* created a user without the admin role.
Provisioned == {User("admin", TRUE, TRUE), User("clerk", TRUE, FALSE)}

\* jwt.encode of the claims sub and exp under a key, at time t.
create_access_token(sub, expires_delta, t) ==
    [sub |-> sub,
     exp |-> t + (IF expires_delta = None THEN 15 ELSE expires_delta),
     key |-> SECRET_KEY]

\* Mutation: the decoder is called without checking the exp claim.
get_current_user_NoExpiry(us, authorization, t) ==
    IF authorization = <<>>
    THEN [status |-> HTTP_401_UNAUTHORIZED, user |-> {}]
    ELSE LET token == authorization[1]
             user == {u \in us : u.username = token.sub}
         IN IF token.key # SECRET_KEY
            THEN [status |-> HTTP_401_UNAUTHORIZED, user |-> {}]
            ELSE IF user = {}
            THEN [status |-> HTTP_401_UNAUTHORIZED, user |-> {}]
            ELSE [status |-> HTTP_200_OK, user |-> user]

\* oauth2_scheme and get_current_user: the bearer token of the request
\* (<<>> when the header is missing) must carry a valid signature, an exp
\* claim that has not passed, and the username of a row of users.
get_current_user(us, authorization, t) ==
    IF authorization = <<>>
    THEN [status |-> HTTP_401_UNAUTHORIZED, user |-> {}]
    ELSE LET token == authorization[1]
             user == {u \in us : u.username = token.sub}
         IN IF token.key # SECRET_KEY \/ token.exp < t
            THEN [status |-> HTTP_401_UNAUTHORIZED, user |-> {}]
            ELSE IF user = {}
            THEN [status |-> HTTP_401_UNAUTHORIZED, user |-> {}]
            ELSE [status |-> HTTP_200_OK, user |-> user]

get_current_active_user(us, authorization, t) ==
    LET current_user == get_current_user(us, authorization, t)
    IN IF current_user.status # HTTP_200_OK THEN current_user
       ELSE IF \E u \in current_user.user : ~u.is_active
       THEN [status |-> HTTP_400_BAD_REQUEST, user |-> {}]
       ELSE current_user

\* Mutation: the admin dependency returns every active user.
get_current_admin_user_NoAdminCheck(us, authorization, t) ==
    get_current_active_user(us, authorization, t)

get_current_admin_user(us, authorization, t) ==
    LET current_user == get_current_active_user(us, authorization, t)
    IN IF current_user.status # HTTP_200_OK THEN current_user
       ELSE IF \E u \in current_user.user : ~u.is_admin
       THEN [status |-> HTTP_403_FORBIDDEN, user |-> {}]
       ELSE current_user

\* POST /token
login_for_access_token(us, username, password, t) ==
    LET user == {u \in us : u.username = username}
    IN IF \/ user = {}
          \/ \E u \in user : ~verify_password(password, u.hashed_password)
       THEN [status |-> HTTP_401_UNAUTHORIZED, body |-> <<>>]
       ELSE [status |-> HTTP_200_OK,
             body |-> <<create_access_token(
                            username, ACCESS_TOKEN_EXPIRE_MINUTES, t)>>]

\* POST /users/ once its dependency has let the caller through.
create_user(us, username, is_admin) ==
    IF \E u \in us : u.username = username
    THEN [users |-> us, status |-> HTTP_400_BAD_REQUEST]
    ELSE [users |-> us \cup {User(username, TRUE, is_admin)},
          status |-> HTTP_201_CREATED]

\* GET /users/me/
read_users_me(us, authorization, t) ==
    LET current_user == get_current_active_user(us, authorization, t)
    IN [status |-> current_user.status,
        body |-> IF current_user.status = HTTP_200_OK
                 THEN <<CHOOSE u \in current_user.user : TRUE>> ELSE <<>>]

\* ---------------------------------------------------------------- export
\* csv.writer's text of a cell: str() of the value, and the empty text for
\* None.  A date is written as the number of its day.
CsvInt(x) == IF x = None THEN "" ELSE ToString(x)

CsvStr(x) == IF x = NULL THEN "" ELSE x

CsvBool(b) == IF b THEN "True" ELSE "False"

CsvDate(x) == IF x = None THEN "" ELSE ToString(x)

EMPLOYEE_HEADERS == <<"ID", "Email", "Is Active", "Registration Date">>

TRUCKER_HEADERS ==
    <<"ID", "Email", "Driver License Number", "Truck ID Number",
      "Is Active", "Registration Date">>

DOCUMENT_HEADERS ==
    <<"ID", "Upload Date", "Is Verified", "Verification Date",
      "Employee ID", "Trucker ID">>

ARCHIVED_EMPLOYEE_HEADERS ==
    <<"ID", "Original ID", "Email", "Is Active", "Registration Date",
      "Archive Date", "Archived Reason">>

ARCHIVED_TRUCKER_HEADERS ==
    <<"ID", "Original ID", "Email", "Driver License Number",
      "Truck ID Number", "Is Active", "Registration Date", "Archive Date",
      "Archived Reason">>

ARCHIVED_DOCUMENT_HEADERS ==
    <<"ID", "Original ID", "Upload Date", "Is Verified",
      "Verification Date", "Employee ID", "Trucker ID", "Archive Date",
      "Archived Reason">>

EmployeeRow(emp) ==
    <<CsvInt(emp.id), CsvStr(emp.email), CsvBool(emp.is_active),
      CsvDate(emp.registration_date)>>

TruckerRow(truck) ==
    <<CsvInt(truck.id), CsvStr(truck.email),
      CsvStr(truck.driver_license_number), CsvStr(truck.truck_id_number),
      CsvBool(truck.is_active), CsvDate(truck.registration_date)>>

DocumentRow(doc) ==
    <<CsvInt(doc.id), CsvDate(doc.upload_date), CsvBool(doc.is_verified),
      CsvDate(doc.verification_date), CsvInt(doc.employee_id),
      CsvInt(doc.trucker_id)>>

ArchivedEmployeeRow(emp) ==
    <<CsvInt(emp.id), CsvInt(emp.original_id), CsvStr(emp.email),
      CsvBool(emp.is_active), CsvDate(emp.registration_date),
      CsvDate(emp.archive_date), CsvStr(emp.archived_reason)>>

ArchivedTruckerRow(truck) ==
    <<CsvInt(truck.id), CsvInt(truck.original_id), CsvStr(truck.email),
      CsvStr(truck.driver_license_number), CsvStr(truck.truck_id_number),
      CsvBool(truck.is_active), CsvDate(truck.registration_date),
      CsvDate(truck.archive_date), CsvStr(truck.archived_reason)>>

ArchivedDocumentRow(doc) ==
    <<CsvInt(doc.id), CsvInt(doc.original_id), CsvDate(doc.upload_date),
      CsvBool(doc.is_verified), CsvDate(doc.verification_date),
      CsvInt(doc.employee_id), CsvInt(doc.trucker_id),
      CsvDate(doc.archive_date), CsvStr(doc.archived_reason)>>

\* One CSV row per row of query(...).all(), which the store returns in
\* primary key order.
Rows(d, table) ==
    LET all == InIdOrder(d[table])
        Row(r) == CASE table = "employees" -> EmployeeRow(r)
                    [] table = "truckers" -> TruckerRow(r)
                    [] table = "documents" -> DocumentRow(r)
                    [] table = "archived_employees" -> ArchivedEmployeeRow(r)
                    [] table = "archived_truckers" -> ArchivedTruckerRow(r)
                    [] table = "archived_documents" -> ArchivedDocumentRow(r)
    IN [i \in 1..Len(all) |-> Row(all[i])]

\* A section of the single CSV stream: title row, header row, the rows of
\* the table and a blank row.
Section(title, headers, data_rows) ==
    <<<<title>>, headers>> \o data_rows \o <<<<>>>>

\* GET /export/csv
export_all_data_csv(d) ==
    [db |-> d, status |-> HTTP_200_OK,
     body |->
        Section("Employees", EMPLOYEE_HEADERS, Rows(d, "employees"))
        \o Section("Truckers", TRUCKER_HEADERS,
                   Rows(d, "truckers"))
        \o Section("Documents", DOCUMENT_HEADERS,
                   Rows(d, "documents"))
        \o Section("Archived Employees", ARCHIVED_EMPLOYEE_HEADERS,
                   Rows(d, "archived_employees"))
        \o Section("Archived Truckers", ARCHIVED_TRUCKER_HEADERS,
                   Rows(d, "archived_truckers"))
        \o Section("Archived Documents", ARCHIVED_DOCUMENT_HEADERS,
                   Rows(d, "archived_documents"))]

\* zf.writestr(filename, text): a member of the ZIP file.  Its header
\* carries the local time at which it was written.
write_csv_to_zip(filename, headers, data_rows, t) ==
    [filename |-> filename, date_time |-> t,
     data |-> <<headers>> \o data_rows]

\* Mutation: the ZIP file is built from the three active tables only.
export_all_data_zip_ActiveOnly(d, t) ==
    [db |-> d, status |-> HTTP_200_OK,
     body |->
        <<write_csv_to_zip("employees.csv", EMPLOYEE_HEADERS,
                           Rows(d, "employees"), t),
          write_csv_to_zip("truckers.csv", TRUCKER_HEADERS,
                           Rows(d, "truckers"), t),
          write_csv_to_zip("documents.csv", DOCUMENT_HEADERS,
                           Rows(d, "documents"), t)>>]

\* GET /export/zip, served at time t.
export_all_data_zip(d, t) ==
    [db |-> d, status |-> HTTP_200_OK,
     body |->
        <<write_csv_to_zip("employees.csv", EMPLOYEE_HEADERS,
                           Rows(d, "employees"), t),
          write_csv_to_zip("truckers.csv", TRUCKER_HEADERS,
                           Rows(d, "truckers"), t),
          write_csv_to_zip("documents.csv", DOCUMENT_HEADERS,
                           Rows(d, "documents"), t),
          write_csv_to_zip("archived_employees.csv",
                           ARCHIVED_EMPLOYEE_HEADERS,
                           Rows(d, "archived_employees"),
                           t),
          write_csv_to_zip("archived_truckers.csv",
                           ARCHIVED_TRUCKER_HEADERS,
                           Rows(d, "archived_truckers"), t),
          write_csv_to_zip("archived_documents.csv",
                           ARCHIVED_DOCUMENT_HEADERS,
                           Rows(d, "archived_documents"),
                           t)>>]

\* ------------------------------------------------------------- analytics
\* round(x, 2) of the quotient n / d of two naturals, in hundredths: the
\* nearest multiple of 0.01, a tie going to the even one.
RoundHalfEven(n, d) ==
    LET q == n \div d
        r == n % d
    IN IF 2 * r < d THEN q
       ELSE IF 2 * r > d THEN q + 1
       ELSE IF q % 2 = 0 THEN q ELSE q + 1

\* Mutation: the rate is taken against the rows that are not counted in
\* part (archived against active, verified against unverified).
Percent_AgainstRest(part, whole) ==
    IF whole > part THEN RoundHalfEven(part * 10000, whole - part) ELSE 0

\* round(part / whole * 100, 2) if whole > 0 else 0, in hundredths of a
\* percent.
Percent(part, whole) ==
    IF whole > 0 THEN RoundHalfEven(part * 10000, whole) ELSE 0

\* part / whole * 100 (0 when whole is 0) compared with a threshold.
PercentOver(part, whole, threshold) ==
    whole > 0 /\ part * 100 > threshold * whole

PercentUnder(part, whole, threshold) ==
    IF whole > 0 THEN part * 100 < threshold * whole ELSE 0 < threshold

\* GET /analytics/business-impact
get_business_impact(d) ==
    LET deactivated_employees == Cardinality(d.archived_employees)
        total_employees == Cardinality(d.employees) + deactivated_employees
        deactivated_truckers == Cardinality(d.archived_truckers)
        total_truckers == Cardinality(d.truckers) + deactivated_truckers
        total_documents == Cardinality(d.documents)
        verified_documents ==
            Cardinality({x \in d.documents : x.is_verified = TRUE})
        high_employee_churn ==
            PercentOver(deactivated_employees, total_employees, 10)
        high_trucker_churn ==
            PercentOver(deactivated_truckers, total_truckers, 15)
        low_compliance ==
            PercentUnder(verified_documents, total_documents, 80)
        strategic_recommendations ==
            (IF high_employee_churn
             THEN <<"Implement employee retention programs (e.g., improved benefits, career development).">>
             ELSE <<>>)
            \o (IF high_trucker_churn
                THEN <<"Analyze trucker satisfaction, improve payment terms, or offer loyalty incentives.",
                       "Explore partnerships with more trucking companies.">>
                ELSE <<>>)
            \o (IF low_compliance
                THEN <<"Enhance document verification processes and training for staff.",
                       "Automate document reminders for employees and truckers.">>
                ELSE <<>>)
    IN [db |-> d, status |-> HTTP_200_OK,
        body |-> <<[employee_churn_rate |->
                        Percent(deactivated_employees, total_employees),
                    trucker_churn_rate |->
                        Percent(deactivated_truckers, total_truckers),
                    document_compliance_rate |->
                        Percent(verified_documents, total_documents),
                    potential_revenue_impact |->
                        IF low_compliance
                        THEN "Potential fines and operational disruptions from regulatory non-compliance."
                        ELSE IF high_trucker_churn
                        THEN "Significant negative impact on logistics capacity and delivery consistency."
                        ELSE IF high_employee_churn
                        THEN "Potential negative impact due to high employee turnover."
                        ELSE "Neutral",
                    operational_efficiency_impact |->
                        IF low_compliance
                        THEN "Suboptimal, increased risk of non-compliance and legal issues."
                        ELSE IF high_trucker_churn
                        THEN "Highly impacted, leading to delays and increased operational costs."
                        ELSE IF high_employee_churn
                        THEN "Reduced due to constant retraining."
                        ELSE "Good",
                    strategic_recommendations |->
                        IF strategic_recommendations = <<>>
                        THEN <<"Maintain current operational standards; consider proactive measures for future growth.">>
                        ELSE strategic_recommendations]>>]

\* ---------------------------------------------------------------- growth
\* Dates are day numbers; the calendar of the model has months of
\* DAYS_PER_MONTH days, month 0 starting on day 0.
DAYS_PER_MONTH == 30

MonthOf(date) == date \div DAYS_PER_MONTH

\* The last day of a month (the label pandas gives a bin of resample('M')).
MonthEnd(month) == (month + 1) * DAYS_PER_MONTH - 1

Min(S) == CHOOSE m \in S : \A x \in S : m <= x

RECURSIVE Sum(_)
Sum(s) == IF s = <<>> THEN 0 ELSE Head(s) + Sum(Tail(s))

\* df.resample('M').size(): the number of registrations in each month from
\* the first to the last month that has one, 0 for a month without.
monthly_counts(d) ==
    LET months == {MonthOf(e.registration_date) : e \in d.employees}
    IN IF months = {} THEN <<>>
       ELSE [i \in 1..(Max(months) - Min(months) + 1) |->
               Cardinality({e \in d.employees :
                   MonthOf(e.registration_date) = Min(months) + i - 1})]

\* LinearRegression().fit(X, y).predict([[x]]) for X = 0, 1, ..., len(y)-1
\* and len(y) >= 2: the value at x of the least-squares line, as the exact
\* fraction num / den with den > 0.
Predict(y, x) ==
    LET n == Len(y)
        Sx == Sum([i \in 1..n |-> i - 1])
        Sy == Sum(y)
        Sxx == Sum([i \in 1..n |-> (i - 1) * (i - 1)])
        Sxy == Sum([i \in 1..n |-> (i - 1) * y[i]])
        slope_num == n * Sxy - Sx * Sy
        slope_den == n * Sxx - Sx * Sx
    IN [num |-> Sy * slope_den - slope_num * Sx + slope_num * x * n,
        den |-> n * slope_den]

\* int(max(0, p)) of a fraction p: int() drops the fractional part.
IntMax0(p) == IF p.num <= 0 THEN 0 ELSE p.num \div p.den

\* GET /analytics/employee-growth.  The mean is the fraction num / den.
get_employee_growth(d) ==
    LET counts == monthly_counts(d)
        first == Min({MonthOf(e.registration_date) : e \in d.employees})
    IN [db |-> d, status |-> HTTP_200_OK,
        body |-> <<[monthly_growth |->
                        [i \in 1..Len(counts) |->
                            [date |-> MonthEnd(first + i - 1),
                             count |-> counts[i]]],
                    total_employees |-> Cardinality(d.employees),
                    average_monthly_growth |->
                        IF Len(counts) > 0
                        THEN [num |-> Sum(counts), den |-> Len(counts)]
                        ELSE [num |-> 0, den |-> 1],
                    projected_next_month |->
                        IF Len(counts) >= 2
                        THEN IntMax0(Predict(counts, Len(counts)))
                        ELSE None]>>]

\* -------------------------------------------------------- request inputs
EmployeeIds == 1..MaxEmployeeId
TruckerIds == 1..MaxTruckerId
DocumentIds == 1..MaxDocumentId

\* The empty dict of model_dump(exclude_unset=True).
NoFields == [k \in {} |-> TRUE]

\* Bodies of PUT /employees/{id}: the fields the client set.
EmployeeUpdate ==
    {NoFields} \cup {[is_active |-> b] : b \in BOOLEAN}
        \cup {[email |-> m] : m \in Emails}

\* Bodies of PUT /truckers/{id}.
TruckerUpdate ==
    {NoFields} \cup {[is_active |-> b] : b \in BOOLEAN}
        \cup {[driver_license_number |-> l] : l \in Licenses}
        \cup {[truck_id_number |-> n] : n \in TruckIdNumbers}
        \cup {[email |-> m] : m \in TruckerEmails}

\* Bodies of POST /truckers/.
TruckerCreate ==
    [driver_license_number : Licenses, truck_id_number : TruckIdNumbers,
     email : TruckerEmails]

\* The bodies of one trucker who sends the required fields only, and the
\* updates of its is_active and driver_license_number.
TruckerCreateRequired ==
    {t \in TruckerCreate : /\ t.driver_license_number = "L1"
                           /\ t.truck_id_number = NULL
                           /\ t.email = NULL}

TruckerUpdateRequired ==
    {patch \in TruckerUpdate :
        /\ DOMAIN patch \subseteq {"is_active", "driver_license_number"}
        /\ "driver_license_number" \in DOMAIN patch
              => patch.driver_license_number = "L1"}

\* Bodies of PUT /documents/{id}.
DocumentUpdate == {NoFields} \cup {[is_verified |-> b] : b \in BOOLEAN}

\* Owner fields of a POST /documents/ body.
OwnerInputs(max) == {None} \cup 0..max

Event(op, arg, status, body) ==
    [op |-> op, arg |-> arg, status |-> status, body |-> body]

Idle == [pc |-> "idle", op |-> "", arg |-> 0,
         emps |-> {}, trucks |-> {}, docs |-> {}]

Workers == 1..NumWorkers

\* --------------------------------------------------------------- actions
Init ==
    /\ db = EmptyDb
    /\ today = 0
    /\ last = Event("start", <<>>, 0, <<>>)
    /\ session = [w \in Workers |-> Idle]
    /\ nreq = 0
    /\ users = Provisioned
    /\ now = 0
    /\ tokens = {}

Serve(op, arg, r) ==
    /\ nreq < MaxOps
    /\ nreq' = nreq + 1
    /\ db' = r.db
    /\ last' = Event(op, arg, r.status, <<>>)
    /\ UNCHANGED <<today, session, authvars>>

\* A request whose response body is kept.
Respond(op, arg, r) ==
    /\ nreq < MaxOps
    /\ nreq' = nreq + 1
    /\ db' = r.db
    /\ last' = Event(op, arg, r.status, r.body)
    /\ UNCHANGED <<today, session, authvars>>

RegisterEmployee ==
    \E email \in Emails :
        /\ NextId(db.employees) <= MaxEmployeeId
        /\ Respond("register_employee", <<email>>,
                   register_employee(db, email))

UpdateEmployee ==
    \E employee_id \in EmployeeIds, patch \in EmployeeUpdate :
        Serve("update_employee", <<employee_id, patch>>,
              update_employee(db, employee_id, patch))

DeleteEmployee ==
    \E employee_id \in EmployeeIds :
        Serve("delete_employee", <<employee_id>>,
              delete_employee(db, employee_id))

RegisterTrucker(bodies, max_id) ==
    \E trucker \in bodies :
        /\ NextId(db.truckers) <= max_id
        /\ Respond("register_trucker", <<trucker>>,
                   register_trucker(db, trucker))

UpdateTrucker(ids, bodies) ==
    \E trucker_id \in ids, patch \in bodies :
        Serve("update_trucker", <<trucker_id, patch>>,
              update_trucker(db, trucker_id, patch))

DeleteTrucker ==
    \E trucker_id \in TruckerIds :
        Serve("delete_trucker", <<trucker_id>>,
              delete_trucker(db, trucker_id))

UploadDocument ==
    \E employee_id \in OwnerInputs(MaxEmployeeId),
       trucker_id \in OwnerInputs(MaxTruckerId) :
        /\ NextId(db.documents) <= MaxDocumentId
        /\ Respond("upload_document", <<employee_id, trucker_id>>,
                   upload_document(db, employee_id, trucker_id))

UpdateDocument ==
    \E document_id \in DocumentIds, patch \in DocumentUpdate :
        Serve("update_document", <<document_id, patch>>,
              update_document(db, document_id, patch))

DeleteDocument ==
    \E document_id \in DocumentIds :
        Serve("delete_document", <<document_id>>,
              delete_document(db, document_id))

ManualArchiveTrigger ==
    \E days_old \in DaysOld :
        LET r == manual_archive_trigger(db, days_old)
        IN /\ nreq < MaxOps
           /\ nreq' = nreq + 1
           /\ db' = r.db
           /\ last' = Event("manual_archive_trigger", <<days_old>>,
                            r.status, r.body)
           /\ UNCHANGED <<today, session, authvars>>

\* datetime.date.today() moves to the next day.
Midnight ==
    /\ today < MaxDay
    /\ nreq < MaxOps
    /\ nreq' = nreq + 1
    /\ today' = today + 1
    /\ last' = Event("midnight", <<>>, 0, <<>>)
    /\ UNCHANGED <<db, session, authvars>>

Next ==
    \/ RegisterEmployee
    \/ UpdateEmployee
    \/ DeleteEmployee
    \/ RegisterTrucker(TruckerCreateRequired, MaxTruckerId)
    \/ UpdateTrucker(TruckerIds, TruckerUpdateRequired)
    \/ DeleteTrucker
    \/ UploadDocument
    \/ UpdateDocument
    \/ DeleteDocument
    \/ ManualArchiveTrigger
    \/ Midnight

Spec == Init /\ [][Next]_vars

\* ------------------------------------------- several processes, one store
\* ConcSpec: NumWorkers server processes share the SQLite file.  A handler
\* first runs its SELECTs (no transaction is open yet), and its writes
\* reach the store when it commits; the store serialises the commits.
\* Another process may commit between the two steps.

\* A registry as the sequential handlers leave it: an inactive employee
\* with one document, and a trucker.
Seeded ==
    LET d1 == register_employee(EmptyDb, "a1@x.com").db
        d2 == update_employee(d1, 1, [is_active |-> FALSE]).db
        d3 == register_trucker(d2, [driver_license_number |-> "L1",
                                    truck_id_number |-> NULL,
                                    email |-> NULL]).db
    IN upload_document(d3, 1, None).db

InitConc ==
    /\ today = 0
    /\ db = Seeded
    /\ last = Event("start", <<>>, 0, <<>>)
    /\ session = [w \in Workers |-> Idle]
    /\ nreq = 0
    /\ users = Provisioned
    /\ now = 0
    /\ tokens = {}

\* SeededSpec: the requests of Spec served on a registry that already
\* holds an employee with a document and a trucker.
SeededSpec == InitConc /\ [][Next]_vars

\* ------------------------------------------------ registry and its reads
\* RegistrySpec: the requests that create, change, read, search and
\* archive persons and documents, with every optional trucker field in
\* play and up to MaxRegistryTruckerId truckers.

\* Values of the query parameter of GET /search/.
Queries == {"1", "2", "L", "x.com"}

GetEmployee ==
    \E employee_id \in EmployeeIds :
        Respond("get_employee", <<employee_id>>,
                get_employee(db, employee_id))

GetTrucker ==
    \E trucker_id \in 1..MaxRegistryTruckerId :
        Respond("get_trucker", <<trucker_id>>, get_trucker(db, trucker_id))

GetDocument ==
    \E document_id \in DocumentIds :
        Respond("get_document", <<document_id>>,
                get_document(db, document_id))

LiveSearch ==
    \E query \in Queries :
        Respond("live_search", <<query>>, live_search(db, query))

RegistryNext ==
    \/ nreq < MaxRegistryOps /\ RegisterEmployee
    \/ nreq < MaxRegistryOps /\ UpdateEmployee
    \/ nreq < MaxRegistryOps /\ GetEmployee
    \/ nreq < MaxRegistryOps /\ DeleteEmployee
    \/ nreq < MaxRegistryOps /\ RegisterTrucker(TruckerCreate, MaxRegistryTruckerId)
    \/ nreq < MaxRegistryOps /\ UpdateTrucker(1..MaxRegistryTruckerId, TruckerUpdate)
    \/ nreq < MaxRegistryOps /\ GetTrucker
    \/ nreq < MaxRegistryOps /\ DeleteTrucker
    \/ nreq < MaxRegistryOps /\ UploadDocument
    \/ nreq < MaxRegistryOps /\ UpdateDocument
    \/ nreq < MaxRegistryOps /\ GetDocument
    \/ nreq < MaxRegistryOps /\ LiveSearch
    \/ nreq < MaxRegistryOps /\ ManualArchiveTrigger

RegistrySpec == Init /\ [][RegistryNext]_vars

\* The handler's SELECT found no row: it answers 404 at once.
NotFound(op, id) ==
    /\ last' = Event(op, <<id>>, HTTP_404_NOT_FOUND, <<>>)
    /\ UNCHANGED <<db, today, session, nreq, authvars>>

Loaded(w, s) ==
    /\ session' = [session EXCEPT ![w] = s]
    /\ UNCHANGED <<db, today, last, nreq, authvars>>

Finish(w, r, body) ==
    /\ db' = r.db
    /\ last' = Event(session[w].op, session[w].arg, r.status, body)
    /\ session' = [session EXCEPT ![w] = Idle]
    /\ UNCHANGED <<today, nreq, authvars>>

LoadDeleteEmployee(w) ==
    \E employee_id \in EmployeeIds :
        /\ session[w].pc = "idle"
        /\ IF ById(db.employees, employee_id) = {}
           THEN NotFound("delete_employee", employee_id)
           ELSE Loaded(w, [Idle EXCEPT !.pc = "loaded",
                               !.op = "delete_employee",
                               !.arg = <<employee_id>>,
                               !.emps = ById(db.employees, employee_id)])

CommitDeleteEmployee(w) ==
    /\ session[w].pc = "loaded"
    /\ session[w].op = "delete_employee"
    /\ LET db_employee == CHOOSE e \in session[w].emps : TRUE
       IN Finish(w, Commit(db, StageDeleteEmployee(db, db_employee),
                           HTTP_204_NO_CONTENT), <<>>)

LoadDeleteTrucker(w) ==
    \E trucker_id \in TruckerIds :
        /\ session[w].pc = "idle"
        /\ IF ById(db.truckers, trucker_id) = {}
           THEN NotFound("delete_trucker", trucker_id)
           ELSE Loaded(w, [Idle EXCEPT !.pc = "loaded",
                               !.op = "delete_trucker",
                               !.arg = <<trucker_id>>,
                               !.trucks = ById(db.truckers, trucker_id)])

CommitDeleteTrucker(w) ==
    /\ session[w].pc = "loaded"
    /\ session[w].op = "delete_trucker"
    /\ LET db_trucker == CHOOSE t \in session[w].trucks : TRUE
       IN Finish(w, Commit(db, StageDeleteTrucker(db, db_trucker),
                           HTTP_204_NO_CONTENT), <<>>)

LoadDeleteDocument(w) ==
    \E document_id \in DocumentIds :
        /\ session[w].pc = "idle"
        /\ IF ById(db.documents, document_id) = {}
           THEN NotFound("delete_document", document_id)
           ELSE Loaded(w, [Idle EXCEPT !.pc = "loaded",
                               !.op = "delete_document",
                               !.arg = <<document_id>>,
                               !.docs = ById(db.documents, document_id)])

CommitDeleteDocument(w) ==
    /\ session[w].pc = "loaded"
    /\ session[w].op = "delete_document"
    /\ LET db_document == CHOOSE x \in session[w].docs : TRUE
       IN Finish(w, Commit(db, StageDeleteDocument(db, db_document),
                           HTTP_204_NO_CONTENT), <<>>)

LoadSweep(w) ==
    \E days_old \in DaysOld :
        /\ session[w].pc = "idle"
        /\ Loaded(w, [pc |-> "loaded", op |-> "manual_archive_trigger",
                      arg |-> <<days_old>>,
                      emps |-> SweepEmployees(db, today - days_old),
                      trucks |-> SweepTruckers(db, today - days_old),
                      docs |-> SweepDocuments(db, today - days_old)])

\* Mutation: the sweep commits after the employee loop and again at the
\* end, so a failure among the truckers or documents leaves the employees
\* archived.
CommitSweep_PerType(w) ==
    /\ session[w].pc = "loaded"
    /\ session[w].op = "manual_archive_trigger"
    /\ LET s == session[w]
           r1 == Commit(db, StageSweep(db, s.emps, {}, {}, s.arg[1]),
                        HTTP_200_OK)
           r2 == Commit(r1.db, StageSweep(r1.db, {}, s.trucks, s.docs,
                                          s.arg[1]), HTTP_200_OK)
           r == [db |-> r2.db,
                 status |-> IF r1.status = HTTP_200_OK
                            THEN r2.status ELSE r1.status]
       IN Finish(w, r, IF r.status = HTTP_200_OK
                       THEN <<Cardinality(s.emps), Cardinality(s.trucks),
                              Cardinality(s.docs)>>
                       ELSE <<>>)

CommitSweep(w) ==
    /\ session[w].pc = "loaded"
    /\ session[w].op = "manual_archive_trigger"
    /\ LET s == session[w]
           r == Commit(db, StageSweep(db, s.emps, s.trucks, s.docs,
                                      s.arg[1]), HTTP_200_OK)
       IN Finish(w, r, IF r.status = HTTP_200_OK
                       THEN <<Cardinality(s.emps), Cardinality(s.trucks),
                              Cardinality(s.docs)>>
                       ELSE <<>>)

NextConc ==
    \E w \in Workers :
        \/ LoadDeleteEmployee(w)
        \/ CommitDeleteEmployee(w)
        \/ LoadDeleteTrucker(w)
        \/ CommitDeleteTrucker(w)
        \/ LoadDeleteDocument(w)
        \/ CommitDeleteDocument(w)
        \/ LoadSweep(w)
        \/ CommitSweep(w)

ConcSpec == InitConc /\ [][NextConc]_vars

\* ------------------------------------------- callers and their tokens
\* AuthSpec: logins, the passing of time, changes of the users table and
\* the admin-only requests, each sent with some Authorization header, on
\* the registry of Seeded.

\* A token signed with another key than the server's.
Forged == [sub |-> "admin", exp |-> now + ACCESS_TOKEN_EXPIRE_MINUTES,
           key |-> "another key"]

\* The Authorization headers a client can send: none, a token the server
\* issued, or a forged one.
Headers == {<<>>, <<Forged>>} \cup {<<i.token>> : i \in tokens}

Login ==
    \E username \in UserNames, password \in Passwords :
        LET r == login_for_access_token(users, username, password, now)
        IN /\ nreq < MaxAuthOps
           /\ nreq' = nreq + 1
           /\ tokens' = IF r.status = HTTP_200_OK
                        THEN tokens \cup
                                 {[token |-> r.body[1], issued_at |-> now]}
                        ELSE tokens
           /\ last' = Event("login_for_access_token",
                            <<username, password>>, r.status, r.body)
           /\ UNCHANGED <<db, today, session, users, now>>

ReadUsersMe ==
    \E authorization \in Headers :
        LET r == read_users_me(users, authorization, now)
        IN /\ nreq < MaxAuthOps
           /\ nreq' = nreq + 1
           /\ last' = Event("read_users_me", <<authorization>>,
                            r.status, r.body)
           /\ UNCHANGED <<db, today, session, authvars>>

CreateUser ==
    \E authorization \in Headers, username \in UserNames,
       is_admin \in BOOLEAN :
        LET who == get_current_admin_user(users, authorization, now)
            r == IF who.status = HTTP_200_OK
                 THEN create_user(users, username, is_admin)
                 ELSE [users |-> users, status |-> who.status]
        IN /\ nreq < MaxAuthOps
           /\ nreq' = nreq + 1
           /\ users' = r.users
           /\ last' = Event("create_user",
                            <<username, authorization>>, r.status, <<>>)
           /\ UNCHANGED <<db, today, session, now, tokens>>

\* A request to a route that depends on get_current_admin_user: the
\* handler runs only when the dependency returned a user.
AsAdmin(authorization, op, arg, r) ==
    LET who == get_current_admin_user(users, authorization, now)
    IN /\ nreq < MaxAuthOps
       /\ nreq' = nreq + 1
       /\ db' = IF who.status = HTTP_200_OK THEN r.db ELSE db
       /\ last' = Event(op, arg \o <<authorization>>,
                        IF who.status = HTTP_200_OK
                        THEN r.status ELSE who.status,
                        <<>>)
       /\ UNCHANGED <<today, session, authvars>>

DeleteEmployeeAs ==
    \E authorization \in Headers, employee_id \in EmployeeIds :
        AsAdmin(authorization, "delete_employee", <<employee_id>>,
                delete_employee(db, employee_id))

DeleteTruckerAs ==
    \E authorization \in Headers, trucker_id \in TruckerIds :
        AsAdmin(authorization, "delete_trucker", <<trucker_id>>,
                delete_trucker(db, trucker_id))

DeleteDocumentAs ==
    \E authorization \in Headers, document_id \in DocumentIds :
        AsAdmin(authorization, "delete_document", <<document_id>>,
                delete_document(db, document_id))

ManualArchiveTriggerAs ==
    \E authorization \in Headers, days_old \in DaysOld :
        AsAdmin(authorization, "manual_archive_trigger", <<days_old>>,
                manual_archive_trigger(db, days_old))

\* The clock moves on.
Tick ==
    /\ now + TICK_MINUTES <= MaxTicks * TICK_MINUTES
    /\ now' = now + TICK_MINUTES
    /\ last' = Event("tick", <<>>, 0, <<>>)
    /\ UNCHANGED <<db, today, session, nreq, users, tokens>>

\* The operator of the store removes a row of users, or clears its
\* is_active flag (no route does either).
DropUser ==
    \E u \in users :
        /\ users' = users \ {u}
        /\ last' = Event("drop_user", <<u.username>>, 0, <<>>)
        /\ UNCHANGED <<db, today, session, nreq, now, tokens>>

DeactivateUser ==
    \E u \in users :
        /\ u.is_active
        /\ users' = (users \ {u}) \cup {[u EXCEPT !.is_active = FALSE]}
        /\ last' = Event("deactivate_user", <<u.username>>, 0, <<>>)
        /\ UNCHANGED <<db, today, session, nreq, now, tokens>>

AuthNext ==
    \/ Login
    \/ ReadUsersMe
    \/ CreateUser
    \/ DeleteEmployeeAs
    \/ DeleteTruckerAs
    \/ DeleteDocumentAs
    \/ ManualArchiveTriggerAs
    \/ Tick
    \/ DropUser
    \/ DeactivateUser

AuthSpec == InitConc /\ [][AuthNext]_vars

\* ------------------------------------------------- exports and analytics
\* ReportSpec: the requests of Spec together with the search, the two
\* exports and the business-impact report, on the registry of Seeded,
\* while the clock moves.

\* Number of requests, day changes and clock steps in a behaviour of
\* ReportSpec.
MaxReportOps == 3

\* The clock moves on between two requests of ReportSpec.
TimePasses ==
    /\ nreq' = nreq + 1
    /\ now' = now + TICK_MINUTES
    /\ last' = Event("tick", <<>>, 0, <<>>)
    /\ UNCHANGED <<db, today, session, users, tokens>>

ExportCsv ==
    Respond("export_all_data_csv", <<>>, export_all_data_csv(db))

ExportZip ==
    Respond("export_all_data_zip", <<>>, export_all_data_zip(db, now))

GetBusinessImpact ==
    Respond("get_business_impact", <<>>, get_business_impact(db))

ReportNext ==
    \/ nreq < MaxReportOps /\ RegisterEmployee
    \/ nreq < MaxReportOps /\ UpdateEmployee
    \/ nreq < MaxReportOps /\ DeleteEmployee
    \/ nreq < MaxReportOps /\ RegisterTrucker(TruckerCreateRequired, MaxTruckerId)
    \/ nreq < MaxReportOps /\ UpdateTrucker(TruckerIds, TruckerUpdateRequired)
    \/ nreq < MaxReportOps /\ DeleteTrucker
    \/ nreq < MaxReportOps /\ UploadDocument
    \/ nreq < MaxReportOps /\ UpdateDocument
    \/ nreq < MaxReportOps /\ DeleteDocument
    \/ nreq < MaxReportOps /\ ManualArchiveTrigger
    \/ nreq < MaxReportOps /\ Midnight
    \/ nreq < MaxReportOps /\ LiveSearch
    \/ nreq < MaxReportOps /\ ExportCsv
    \/ nreq < MaxReportOps /\ ExportZip
    \/ nreq < MaxReportOps /\ GetBusinessImpact
    \/ nreq < MaxReportOps /\ TimePasses

ReportSpec == InitConc /\ [][ReportNext]_vars

\* ---------------------------------------------------- registries at large
\* ImpactSpec: the business-impact report and the archive requests on a
\* registry that earlier requests have filled: some employees and truckers
\* registered, the oldest of them archived, some documents uploaded and
\* some of these verified.

\* Largest number of rows in a table of the registry ImpactSpec starts in.
MaxImpactRows == 2
\* Number of requests in a behaviour of ImpactSpec.
MaxImpactOps == 1

\* The registry after `ae + ne` employees and `at + nt` truckers were
\* registered, the first `ae` employees and `at` truckers deleted, `nd`
\* documents uploaded for the first person left and the first `vd` of
\* them verified, all on day 0.
Registry(ne, ae, nt, at, nd, vd) ==
    LET employee(id) ==
            [id |-> id, email |-> "e" \o ToString(id) \o "@x.com",
             is_active |-> TRUE, registration_date |-> 0]
        trucker(id) ==
            [id |-> id, driver_license_number |-> "L" \o ToString(id),
             truck_id_number |-> NULL, email |-> NULL,
             is_active |-> TRUE, registration_date |-> 0]
        archived(snapshot) ==
            [snapshot EXCEPT !.id = snapshot.original_id,
                             !.archive_date = 0]
    IN [employees |-> {employee(ae + i) : i \in 1..ne},
        truckers |-> {trucker(at + i) : i \in 1..nt},
        documents |->
            {[id |-> i, upload_date |-> 0, is_verified |-> i <= vd,
              verification_date |-> IF i <= vd THEN 0 ELSE None,
              employee_id |-> IF ne > 0 THEN ae + 1 ELSE None,
              trucker_id |-> IF ne > 0 THEN None ELSE at + 1]
               : i \in 1..nd},
        archived_employees |->
            {archived(ArchivedEmployee(employee(i), MANUAL_REASON))
               : i \in 1..ae},
        archived_truckers |->
            {archived(ArchivedTrucker(trucker(i), MANUAL_REASON))
               : i \in 1..at},
        archived_documents |-> {}]

InitImpact ==
    /\ today = 0
    /\ \E ne, ae, nt, at, nd, vd \in 0..MaxImpactRows :
          /\ vd <= nd
          /\ nd > 0 => ne + nt > 0
          /\ db = Registry(ne, ae, nt, at, nd, vd)
    /\ last = Event("start", <<>>, 0, <<>>)
    /\ session = [w \in Workers |-> Idle]
    /\ nreq = 0
    /\ users = Provisioned
    /\ now = 0
    /\ tokens = {}

\* The requests of ImpactSpec name rows that are in the registry.
DeactivateRegisteredEmployee ==
    \E db_employee \in db.employees :
        Serve("update_employee", <<db_employee.id, [is_active |-> FALSE]>>,
              update_employee(db, db_employee.id, [is_active |-> FALSE]))

DeleteRegisteredEmployee ==
    \E db_employee \in db.employees :
        Serve("delete_employee", <<db_employee.id>>,
              delete_employee(db, db_employee.id))

DeleteRegisteredTrucker ==
    \E db_trucker \in db.truckers :
        Serve("delete_trucker", <<db_trucker.id>>,
              delete_trucker(db, db_trucker.id))

DeleteUploadedDocument ==
    \E db_document \in db.documents :
        Serve("delete_document", <<db_document.id>>,
              delete_document(db, db_document.id))

UpdateUploadedDocument ==
    \E db_document \in db.documents, patch \in DocumentUpdate :
        Serve("update_document", <<db_document.id, patch>>,
              update_document(db, db_document.id, patch))

ImpactNext ==
    \/ nreq < MaxImpactOps /\ GetBusinessImpact
    \/ nreq < MaxImpactOps /\ DeactivateRegisteredEmployee
    \/ nreq < MaxImpactOps /\ DeleteRegisteredEmployee
    \/ nreq < MaxImpactOps /\ DeleteRegisteredTrucker
    \/ nreq < MaxImpactOps /\ DeleteUploadedDocument
    \/ nreq < MaxImpactOps /\ UpdateUploadedDocument
    \/ nreq < MaxImpactOps /\ ManualArchiveTrigger

ImpactSpec == InitImpact /\ [][ImpactNext]_vars

\* ------------------------------------------------- registrations by month
\* GrowthSpec: the growth report on a registry in which some employees
\* registered in each of the last MaxMonths months.

\* Number of months over which the employees of GrowthSpec registered.
MaxMonths == 3
\* Largest number of employees that registered in one month.
MaxMonthlyCount == 6

\* The employees table after registrations[m] employees registered on the
\* first day of month m - 1, for each m.
Registered(registrations) ==
    {[id |-> Sum(SubSeq(registrations, 1, m - 1)) + k,
      email |-> "e" \o ToString(Sum(SubSeq(registrations, 1, m - 1)) + k)
                    \o "@x.com",
      is_active |-> TRUE,
      registration_date |-> (m - 1) * DAYS_PER_MONTH]
       : <<m, k>> \in {p \in (1..Len(registrations)) \X (1..MaxMonthlyCount) :
                         p[2] <= registrations[p[1]]}}

InitGrowth ==
    /\ today = MonthEnd(MaxMonths - 1)
    /\ \E registrations \in [1..MaxMonths -> 0..MaxMonthlyCount] :
          db = [EmptyDb EXCEPT !.employees = Registered(registrations)]
    /\ last = Event("start", <<>>, 0, <<>>)
    /\ session = [w \in Workers |-> Idle]
    /\ nreq = 0
    /\ users = Provisioned
    /\ now = 0
    /\ tokens = {}

GetEmployeeGrowth ==
    Respond("get_employee_growth", <<>>, get_employee_growth(db))

GrowthSpec == InitGrowth /\ [][GetEmployeeGrowth]_vars

\* ================================================================ claims
\* A row id left the active table in this step.
Removed(table, id) == id \in Ids(db[table]) /\ id \notin Ids(db'[table])

\* A snapshot of id was added to the archive table in this step.
Snapped(archive, id) ==
    \E a \in db'[archive] \ db[archive] : a.original_id = id

OriginalIds(archive) == {a.original_id : a \in db[archive]}

ArchiveTables ==
    {"archived_employees", "archived_truckers", "archived_documents"}

\* C1: after any sequence of create, update, delete and sweep requests, no
\* archive table holds two rows with the same original_id.
C1_OriginalIdUnique ==
    \A t \in ArchiveTables :
        \A r1, r2 \in db[t] : r1.original_id = r2.original_id => r1 = r2

\* C1 witness: an employee whose id already has a snapshot (the id was
\* handed out again) was sent to the archive and the store refused the
\* second snapshot.
C1_Witness ==
    /\ last.op = "delete_employee"
    /\ last.status = HTTP_500_INTERNAL_ERROR
    /\ \E e \in db.employees : e.id \in OriginalIds("archived_employees")

\* C2: every step of the store is all-or-nothing for an archived record: a
\* person leaves its active table exactly when its snapshot is added, a
\* document's snapshot is added only when the document leaves, and a
\* document leaves without a snapshot only together with its owner.
C2_ArchiveAtomic ==
    [][ /\ \A id \in Ids(db.employees) \cup Ids(db'.employees)
                     \cup OriginalIds("archived_employees")' :
              Removed("employees", id) <=> Snapped("archived_employees", id)
        /\ \A id \in Ids(db.truckers) \cup Ids(db'.truckers)
                     \cup OriginalIds("archived_truckers")' :
              Removed("truckers", id) <=> Snapped("archived_truckers", id)
        /\ \A id \in OriginalIds("archived_documents")' :
              Snapped("archived_documents", id) => Removed("documents", id)
        /\ \A x \in db.documents :
              Removed("documents", x.id) =>
                  \/ Snapped("archived_documents", x.id)
                  \/ Removed("employees", x.employee_id)
                  \/ Removed("truckers", x.trucker_id)
      ]_vars

\* C2 witness: a trucker was deleted: its snapshot is stored and its row
\* is gone.
C2_Witness ==
    /\ last.op = "delete_trucker"
    /\ last.status = HTTP_204_NO_CONTENT
    /\ last.arg[1] \in OriginalIds("archived_truckers")
    /\ last.arg[1] \notin Ids(db.truckers)

\* C3: in every committed state each active document refers to a row of
\* the active employees or truckers table.
C3_NoDanglingOwner ==
    \A x \in db.documents :
        /\ x.employee_id # None => x.employee_id \in Ids(db.employees)
        /\ x.trucker_id # None => x.trucker_id \in Ids(db.truckers)

\* C3 witness: a sweep archived an employee together with a document
\* that the employee owned.
C3_Witness ==
    /\ last.op = "manual_archive_trigger"
    /\ last.status = HTTP_200_OK
    /\ last.body[1] >= 1
    /\ \E ad \in db.archived_documents, ae \in db.archived_employees :
          /\ ad.employee_id = ae.original_id
          /\ ad.archive_date = today
          /\ ae.archive_date = today
          /\ ae.archived_reason # MANUAL_REASON
    /\ \A x \in db.documents : x.employee_id \notin
                                  OriginalIds("archived_employees")

DeleteOps == {"delete_employee", "delete_trucker", "delete_document"}

\* The active and the archive table a DELETE handler works on.
ActiveOf(op) ==
    CASE op = "delete_employee" -> "employees"
      [] op = "delete_trucker" -> "truckers"
      [] op = "delete_document" -> "documents"

ArchiveOf(op) ==
    CASE op = "delete_employee" -> "archived_employees"
      [] op = "delete_trucker" -> "archived_truckers"
      [] op = "delete_document" -> "archived_documents"

\* C4: a DELETE repeated for the same id right after the first one leaves
\* every table as the first call left it, and answers NotFound when the
\* first call archived the record.
C4_DeleteTwiceIdempotent ==
    [][ (/\ last.op \in DeleteOps
         /\ last'.op = last.op
         /\ last'.arg = last.arg)
        => /\ db' = db
           /\ last.status = HTTP_204_NO_CONTENT
                 => last'.status = HTTP_404_NOT_FOUND
      ]_vars

\* C4 witness: a document has been archived and a DELETE for its id was
\* answered NotFound.
C4_Witness ==
    /\ last.op = "delete_document"
    /\ last.status = HTTP_404_NOT_FOUND
    /\ last.arg[1] \in OriginalIds("archived_documents")
    /\ last.arg[1] \notin Ids(db.documents)

\* Some row a session loaded has been archived by another process since.
ArchivedMeanwhile(s) ==
    \/ \E e \in s.emps : e.id \in OriginalIds("archived_employees")
    \/ \E t \in s.trucks : t.id \in OriginalIds("archived_truckers")
    \/ \E x \in s.docs : x.id \in OriginalIds("archived_documents")

\* C5: when an archiver commits after another process has archived the
\* row it loaded, the store still holds one snapshot per original_id and
\* the late archiver does not end in an error.
C5_LateArchiverIsNotAnError ==
    [][ \A w \in Workers :
          (/\ session[w].pc = "loaded"
           /\ session'[w].pc = "idle"
           /\ ArchivedMeanwhile(session[w]))
          => /\ last'.status # HTTP_500_INTERNAL_ERROR
             /\ \A t \in ArchiveTables :
                   \A r1, r2 \in db'[t] :
                       r1.original_id = r2.original_id => r1 = r2
      ]_vars

\* C6: an archive request either archives fully (the row is gone and its
\* snapshot stored) or leaves every table as it was.
C6_ArchiveAllOrNothing ==
    [][ /\ last'.op \in DeleteOps =>
              IF last'.status = HTTP_204_NO_CONTENT
              THEN /\ Removed(ActiveOf(last'.op), last'.arg[1])
                   /\ Snapped(ArchiveOf(last'.op), last'.arg[1])
              ELSE db' = db
        /\ (last'.op = "manual_archive_trigger"
            /\ last'.status # HTTP_200_OK) => db' = db
      ]_vars

\* C6 witness: the snapshot INSERT of a trucker DELETE violated the
\* uniqueness of original_id, and the trucker is still registered.
C6_Witness ==
    /\ last.op = "delete_trucker"
    /\ last.status = HTTP_500_INTERNAL_ERROR
    /\ last.arg[1] \in Ids(db.truckers)
    /\ last.arg[1] \in OriginalIds("archived_truckers")

C8_SweepArchivesSelection ==
    [][ last'.op = "manual_archive_trigger" =>
        LET cutoff == today - last'.arg[1] IN
        /\ \A e \in db.employees :
              IF e.is_active = FALSE \/ e.registration_date < cutoff
              THEN /\ e.id \notin Ids(db'.employees)
                   /\ e.id \in OriginalIds("archived_employees")'
              ELSE e \in db'.employees
        /\ \A t \in db.truckers :
              IF t.is_active = FALSE \/ t.registration_date < cutoff
              THEN /\ t.id \notin Ids(db'.truckers)
                   /\ t.id \in OriginalIds("archived_truckers")'
              ELSE t \in db'.truckers
        /\ \A x \in db.documents :
              IF x.upload_date < cutoff
              THEN /\ x.id \notin Ids(db'.documents)
                   /\ x.id \in OriginalIds("archived_documents")'
              ELSE \/ x \in db'.documents
                   \/ Removed("employees", x.employee_id)
                   \/ Removed("truckers", x.trucker_id)
      ]_vars

\* C9: a sweep repeated with the same days_old right after a sweep, on
\* the same day, archives nothing, reports 0/0/0 and changes no table.
C9_SweepTwiceIdempotent ==
    [][ (/\ last.op = "manual_archive_trigger"
         /\ last.status = HTTP_200_OK
         /\ last'.op = "manual_archive_trigger"
         /\ last'.arg = last.arg)
        => /\ last'.status = HTTP_200_OK
           /\ last'.body = <<0, 0, 0>>
           /\ db' = db
      ]_vars

\* C9 witness: a sweep reported 0/0/0 on a day on which a sweep with the
\* same days_old had archived an employee.
C9_Witness ==
    /\ last.op = "manual_archive_trigger"
    /\ last.body = <<0, 0, 0>>
    /\ \E ae \in db.archived_employees :
          /\ ae.archive_date = today
          /\ ae.archived_reason = EMPLOYEE_SWEEP_REASON(last.arg[1])

\* C10: a POST /documents/ body with both owners or with none is rejected,
\* every active document has exactly one of employee_id / trucker_id, and
\* no request changes the owner of a document that stays in the table.
C10_ExactlyOneOwner ==
    /\ [](/\ \A x \in db.documents :
               (x.employee_id = None) # (x.trucker_id = None)
          /\ (/\ last.op = "upload_document"
              /\ (last.arg[1] = None) = (last.arg[2] = None))
             => last.status = HTTP_422_UNPROCESSABLE)
    /\ [][ \A x \in db.documents, y \in db'.documents :
             (x.id = y.id /\ last'.op = "update_document")
             => /\ y.employee_id = x.employee_id
                /\ y.trucker_id = x.trucker_id
         ]_vars

\* C10 witness: a body that names both an employee and a trucker was
\* rejected while the registry holds documents.
C10_Witness ==
    /\ last.op = "upload_document"
    /\ last.arg[1] # None
    /\ last.arg[2] # None
    /\ last.status = HTTP_422_UNPROCESSABLE
    /\ db.documents # {}

\* C11: an update that verifies a document without verification_date
\* stamps it with the current date, and no update changes a
\* verification_date that is already set, also when is_verified went back
\* to false in between.
C11_VerificationDateSetOnce ==
    [][ last'.op = "update_document" =>
        \A x \in db.documents, y \in db'.documents :
            x.id = y.id =>
              /\ (x.verification_date # None
                    => y.verification_date = x.verification_date)
              /\ (/\ x.verification_date = None
                  /\ x.is_verified = FALSE
                  /\ y.is_verified = TRUE)
                 => y.verification_date = today
      ]_vars

\* C12: a POST /documents/ whose body names exactly one owner succeeds
\* only when that owner is a row of the active table with is_active true;
\* otherwise it answers NotFound and adds no document.
C12_UploadNeedsActiveOwner ==
    [][ (/\ last'.op = "upload_document"
         /\ DocumentCreateValid(last'.arg[1], last'.arg[2]))
        => LET owner ==
                   {e \in db.employees : e.id = last'.arg[1]}
                       \cup {t \in db.truckers : t.id = last'.arg[2]}
           IN IF \E p \in owner : p.is_active = TRUE
              THEN TRUE
              ELSE /\ last'.status = HTTP_404_NOT_FOUND
                   /\ db'.documents = db.documents
      ]_vars

\* C13: a create whose input collides with an active row on a unique
\* column (email of an employee; driver_license_number, a given
\* truck_id_number or a given email of a trucker) answers Conflict (400)
\* and leaves every table unchanged.
C13_CreateConflict ==
    [][ (\/ /\ last'.op = "register_employee"
            /\ \E e \in db.employees : e.email = last'.arg[1]
         \/ /\ last'.op = "register_trucker"
            /\ LET trucker == last'.arg[1]
               IN \E t \in db.truckers :
                     \/ t.driver_license_number
                            = trucker.driver_license_number
                     \/ /\ trucker.truck_id_number # NULL
                        /\ t.truck_id_number = trucker.truck_id_number
                     \/ /\ trucker.email # NULL
                        /\ t.email = trucker.email)
        => /\ last'.status = HTTP_400_BAD_REQUEST
           /\ db' = db
      ]_vars

\* C14: no two rows of the employees table share an email, and no two
\* rows of the truckers table share a driver_license_number, a non-null
\* truck_id_number or a non-null email, whatever creates and updates were
\* served.
C14_ActiveUnique ==
    /\ \A e1, e2 \in db.employees : e1.email = e2.email => e1 = e2
    /\ \A t1, t2 \in db.truckers :
          \/ t1 = t2
          \/ /\ t1.driver_license_number # t2.driver_license_number
             /\ ~ (/\ t1.truck_id_number # NULL
                   /\ t1.truck_id_number = t2.truck_id_number)
             /\ ~ (t1.email # NULL /\ t1.email = t2.email)

\* C14 witness: two truckers are registered and an update that would have
\* given one of them a unique value of the other was refused by the store.
C14_Witness ==
    /\ last.op = "update_trucker"
    /\ last.status = HTTP_500_INTERNAL_ERROR
    /\ Cardinality(db.truckers) = 2

UpdateOps == {"update_employee", "update_trucker", "update_document"}

\* C15: an update of an id that is not in its table answers NotFound and
\* changes nothing; an update of an existing id gives every field of the
\* partial input its new value (and stamps verification_date of a document
\* being verified), and leaves the other fields of the row, the other rows
\* and the other tables as they were.
C15_UpdateFrame ==
    [][ last'.op \in UpdateOps =>
        LET table == IF last'.op = "update_employee" THEN "employees"
                     ELSE IF last'.op = "update_trucker" THEN "truckers"
                     ELSE "documents"
            id == last'.arg[1]
            patch == last'.arg[2]
        IN IF id \notin Ids(db[table])
           THEN last'.status = HTTP_404_NOT_FOUND /\ db' = db
           ELSE /\ \A t \in DOMAIN db : t # table => db'[t] = db[t]
                /\ Ids(db'[table]) = Ids(db[table])
                /\ \A r \in db[table] : r.id # id => r \in db'[table]
                /\ \A r \in db[table], r2 \in db'[table] :
                      (r.id = id /\ r2.id = id) =>
                        \A k \in DOMAIN r :
                            IF k \in DOMAIN patch THEN r2[k] = patch[k]
                            ELSE IF /\ k = "verification_date"
                                    /\ table = "documents"
                                    /\ "is_verified" \in DOMAIN patch
                                    /\ patch.is_verified = TRUE
                                    /\ r.is_verified = FALSE
                                 THEN r2[k] = today
                                 ELSE r2[k] = r[k]
      ]_vars

\* C16: when a create answered 201 and the next request reads the id it
\* returned, the read answers 200 with a record that has that id, the
\* fields of the create body and the defaults: is_active true and
\* registration_date today for a person, is_verified false, no
\* verification_date and upload_date today for a document.
C16_CreateThenGet ==
    [][ (/\ last.status = HTTP_201_CREATED
         /\ \/ last.op = "register_employee" /\ last'.op = "get_employee"
            \/ last.op = "register_trucker" /\ last'.op = "get_trucker"
            \/ last.op = "upload_document" /\ last'.op = "get_document"
         /\ last'.arg[1] = last.body[1].id)
        => /\ last'.status = HTTP_200_OK
           /\ LET out == last'.body[1]
              IN /\ out.id = last.body[1].id
                 /\ last.op = "register_employee" =>
                      /\ out.email = last.arg[1]
                      /\ out.is_active = TRUE
                      /\ out.registration_date = today
                 /\ last.op = "register_trucker" =>
                      /\ out.driver_license_number
                             = last.arg[1].driver_license_number
                      /\ out.truck_id_number = last.arg[1].truck_id_number
                      /\ out.email = last.arg[1].email
                      /\ out.is_active = TRUE
                      /\ out.registration_date = today
                 /\ last.op = "upload_document" =>
                      /\ out.employee_id = last.arg[1]
                      /\ out.trucker_id = last.arg[2]
                      /\ out.is_verified = FALSE
                      /\ out.verification_date = None
                      /\ out.upload_date = today
      ]_vars

\* C16 witness: the second request of a behaviour read the trucker that
\* the first one registered with an email and a truck_id_number.
C16_Witness ==
    /\ nreq = 2
    /\ last.op = "get_trucker"
    /\ last.status = HTTP_200_OK
    /\ last.body[1].email # NULL
    /\ last.body[1].truck_id_number # NULL

\* C17: the result list of a search holds no two entries with the same
\* type and id, and for a numeric query the employee and the trucker
\* with that id are both in it.
C17_SearchNoDuplicates ==
    last.op = "live_search" =>
        LET results == last.body
            query == last.arg[1]
        IN /\ \A i, j \in 1..Len(results) :
                 (/\ results[i].type = results[j].type
                  /\ results[i].id = results[j].id) => i = j
           /\ IsInt(query) =>
                /\ \A e \in ById(db.employees, IntOf(query)) :
                      \E i \in 1..Len(results) :
                          results[i].type = "employee"
                              /\ results[i].id = e.id
                /\ \A t \in ById(db.truckers, IntOf(query)) :
                      \E i \in 1..Len(results) :
                          results[i].type = "trucker"
                              /\ results[i].id = t.id

\* C17 witness: a numeric query returned the employee and the trucker
\* with that id, and both also match the query as a substring.
C17_Witness ==
    /\ last.op = "live_search"
    /\ IsInt(last.arg[1])
    /\ Len(last.body) = 2
    /\ \E e \in db.employees, t \in db.truckers :
          /\ e.id = IntOf(last.arg[1])
          /\ t.id = IntOf(last.arg[1])
          /\ ILike(e.email, last.arg[1])
          /\ ILike(t.driver_license_number, last.arg[1])

\* C18: every entry of a search result is a row that is in the active
\* employees or truckers table when the search is served; a record that
\* was archived by a DELETE or by the sweep is not returned, although its
\* snapshot is kept.
C18_SearchActiveOnly ==
    last.op = "live_search" =>
        \A i \in 1..Len(last.body) :
            \/ \E e \in db.employees : last.body[i] = EmployeeResult(e)
            \/ \E t \in db.truckers : last.body[i] = TruckerResult(t)

\* C18 witness: the query matches the email of an archived employee whose
\* id is no longer in the employees table, and the search returned no
\* employee.
C18_Witness ==
    /\ last.op = "live_search"
    /\ \E a \in db.archived_employees :
          /\ ILike(a.email, last.arg[1])
          /\ a.original_id \notin Ids(db.employees)
    /\ \A i \in 1..Len(last.body) : last.body[i].type # "employee"

AdminOps ==
    {"delete_employee", "delete_trucker", "delete_document",
     "manual_archive_trigger"}

\* C19: a DELETE of an employee, trucker or document and the sweep change
\* the tables only for a caller whose token resolves to a user that is
\* active and admin; without a valid token the answer is Unauthorized
\* (401), for an inactive user InactiveAccount (400), for an active user
\* without the admin role Forbidden (403), and these three leave the
\* active and the archive tables as they were.
C19_ArchivalAdminOnly ==
    [][ last'.op \in AdminOps =>
        LET authorization == last'.arg[2]
            resolved ==
                IF authorization = <<>> THEN {}
                ELSE {u \in users :
                        /\ u.username = authorization[1].sub
                        /\ authorization[1].key = SECRET_KEY
                        /\ authorization[1].exp >= now}
        IN /\ resolved = {} =>
                last'.status = HTTP_401_UNAUTHORIZED /\ db' = db
           /\ (\E u \in resolved : ~u.is_active) =>
                last'.status = HTTP_400_BAD_REQUEST /\ db' = db
           /\ (\E u \in resolved : u.is_active /\ ~u.is_admin) =>
                last'.status = HTTP_403_FORBIDDEN /\ db' = db
           /\ db' # db => \E u \in resolved : u.is_active /\ u.is_admin
      ]_vars

\* C19 witness: an active user without the admin role sent a DELETE for an
\* employee that is in the table and was answered Forbidden.
C19_Witness ==
    /\ last.op = "delete_employee"
    /\ last.status = HTTP_403_FORBIDDEN
    /\ last.arg[1] \in Ids(db.employees)
    /\ \E u \in users :
          /\ u.username = last.arg[2][1].sub
          /\ u.is_active
          /\ ~u.is_admin

\* C20: a token that POST /token issued at time t resolves to a user only
\* at times up to t + 30 minutes and only while a row of users has its
\* username; later, or without such a row, the resolution and a request
\* that carries the token answer Unauthorized (401).
C20_TokenWindow ==
    \A i \in tokens :
        LET r == get_current_user(users, <<i.token>>, now)
            alive == now <= i.issued_at + 30
            known == \E u \in users : u.username = i.token.sub
        IN /\ r.status = HTTP_200_OK => alive /\ known
           /\ ~(alive /\ known) => r.status = HTTP_401_UNAUTHORIZED
           /\ (last.op = "read_users_me" /\ last.arg[1] = <<i.token>>) =>
                /\ last.status # HTTP_401_UNAUTHORIZED => alive /\ known
                /\ ~(alive /\ known)
                     => last.status = HTTP_401_UNAUTHORIZED

\* C20 witness: a request carried a token of a user that is still in the
\* table, more than 30 minutes after the token was issued, and was
\* answered Unauthorized.
C20_Witness ==
    /\ last.op = "read_users_me"
    /\ last.status = HTTP_401_UNAUTHORIZED
    /\ \E i \in tokens :
          /\ last.arg[1] = <<i.token>>
          /\ now > i.issued_at + 30
          /\ \E u \in users : u.username = i.token.sub /\ u.is_active

\* C21: a manual DELETE of an id that is in its active table adds a
\* snapshot whose original_id is that id, whose other fields (is_active
\* included) are those of the row when the call was made, whose
\* archive_date is today and whose archived_reason is MANUAL_REASON, and
\* removes the id from the active table.
C21_ManualDeleteSnapshots ==
    [][ (/\ last'.op \in DeleteOps
         /\ last'.arg[1] \in Ids(db[ActiveOf(last'.op)]))
        => /\ last'.arg[1] \notin Ids(db'[ActiveOf(last'.op)])
           /\ \E a \in db'[ArchiveOf(last'.op)] \ db[ArchiveOf(last'.op)] :
                \E src \in ById(db[ActiveOf(last'.op)], last'.arg[1]) :
                    /\ a.original_id = src.id
                    /\ \A k \in DOMAIN src \ {"id"} : a[k] = src[k]
                    /\ a.archive_date = today
                    /\ a.archived_reason = MANUAL_REASON
      ]_vars

\* C22: the archive tables are append-only: every snapshot row that is in
\* an archive table before a step is in it, unchanged, after the step,
\* whatever request (create, update, delete, sweep, search, report or
\* export) the step served.
C22_ArchiveAppendOnly ==
    [][ \A t \in ArchiveTables : db[t] \subseteq db'[t] ]_vars

\* C22 witness: an employee whose id already has a snapshot was sent to
\* the archive again, and the earlier snapshot is still the only one.
C22_Witness ==
    /\ last.op = "delete_employee"
    /\ last.status = HTTP_500_INTERNAL_ERROR
    /\ \E a \in db.archived_employees :
          /\ a.original_id = last.arg[1]
          /\ \E e \in db.employees :
                e.id = a.original_id /\ e.email # a.email

ExportOps == {"export_all_data_csv", "export_all_data_zip"}

\* The six tables in the order in which the exports write them.
ExportedTables ==
    <<"employees", "truckers", "documents", "archived_employees",
      "archived_truckers", "archived_documents">>

SectionTitles ==
    <<<<"Employees">>, <<"Truckers">>, <<"Documents">>,
      <<"Archived Employees">>, <<"Archived Truckers">>,
      <<"Archived Documents">>>>

\* The times at which a request can be served.
Clock == {k * TICK_MINUTES : k \in 0..MaxTicks}

IsTitleRow(row) == Len(row) = 1

\* The members of a ZIP file without the time in their headers.
ZipContent(members) ==
    [i \in 1..Len(members) |->
        [filename |-> members[i].filename, data |-> members[i].data]]

\* An export leaves every table as it was.
ExportReadOnly == [][ last'.op \in ExportOps => db' = db ]_vars

RateError(rate, part, whole) ==
    IF rate * whole >= 10000 * part
    THEN rate * whole - 10000 * part
    ELSE 10000 * part - rate * whole

\* The rates of the report that would be served in registry d.
Rates(d) == get_business_impact(d).body[1]

\* The churn rates of the report do not go down in a step that serves a
\* DELETE or the sweep.
ChurnNeverDecreases ==
    [][ last'.op \in AdminOps =>
          /\ Rates(db').employee_churn_rate >= Rates(db).employee_churn_rate
          /\ Rates(db').trucker_churn_rate >= Rates(db).trucker_churn_rate
      ]_vars

\* C24 (as stated): each churn rate of the report equals archived /
\* (active-table count + archived) x 100 and is 0 when that sum is 0, lies
\* between 0 and 100 and never decreases by an archive operation; the
\* compliance rate equals verified / total x 100 over the documents table
\* and is 0 without documents.
C24_RatesExact ==
    /\ ChurnNeverDecreases
    /\ [](last.op = "get_business_impact" =>
            LET report == last.body[1]
                archived_e == Cardinality(db.archived_employees)
                all_e == Cardinality(db.employees) + archived_e
                archived_t == Cardinality(db.archived_truckers)
                all_t == Cardinality(db.truckers) + archived_t
                verified == Cardinality({x \in db.documents : x.is_verified})
                total == Cardinality(db.documents)
            IN /\ RateError(report.employee_churn_rate, archived_e, all_e) = 0
               /\ all_e = 0 => report.employee_churn_rate = 0
               /\ RateError(report.trucker_churn_rate, archived_t, all_t) = 0
               /\ all_t = 0 => report.trucker_churn_rate = 0
               /\ RateError(report.document_compliance_rate, verified, total)
                     = 0
               /\ total = 0 => report.document_compliance_rate = 0
               /\ report.employee_churn_rate \in 0..10000
               /\ report.trucker_churn_rate \in 0..10000)

\* C24 (amended): each rate of the report is the quotient of the claim
\* rounded to two decimals (at most 0.005 away from it), 0 when the
\* denominator is 0; the churn rates lie between 0 and 100 and never
\* decrease by an archive operation.
C24_RatesRounded ==
    /\ ChurnNeverDecreases
    /\ [](last.op = "get_business_impact" =>
            LET report == last.body[1]
                archived_e == Cardinality(db.archived_employees)
                all_e == Cardinality(db.employees) + archived_e
                archived_t == Cardinality(db.archived_truckers)
                all_t == Cardinality(db.truckers) + archived_t
                verified == Cardinality({x \in db.documents : x.is_verified})
                total == Cardinality(db.documents)
            IN /\ 2 * RateError(report.employee_churn_rate, archived_e, all_e)
                     <= all_e
               /\ all_e = 0 => report.employee_churn_rate = 0
               /\ 2 * RateError(report.trucker_churn_rate, archived_t, all_t)
                     <= all_t
               /\ all_t = 0 => report.trucker_churn_rate = 0
               /\ 2 * RateError(report.document_compliance_rate, verified,
                                total) <= total
               /\ total = 0 => report.document_compliance_rate = 0
               /\ report.employee_churn_rate \in 0..10000
               /\ report.trucker_churn_rate \in 0..10000)

\* C24 witness: the report served in a registry with one employee and the
\* snapshots of two archived ones gives an employee churn rate of 66.67.
C24_Witness ==
    /\ last.op = "get_business_impact"
    /\ Cardinality(db.archived_employees) = 2
    /\ Cardinality(db.employees) = 1
    /\ last.body[1].employee_churn_rate = 6667

\* The series <<2, 4, 6>> of the example.
ExampleCounts == <<2, 4, 6>>

\* C25: the growth report returns the arithmetic mean of the monthly
\* counts; for a series of at least two months its projection equals the
\* value of the least-squares line at the next month index, or 0 when
\* that value is negative (counts 2, 4, 6: mean 4 and projection 8); for
\* a shorter series it returns no projection.
C25_MeanAndProjection ==
    last.op = "get_employee_growth" =>
        LET report == last.body[1]
            y == monthly_counts(db)
            n == Len(y)
            mean == report.average_monthly_growth
            \* n * (x - mean of x) and n * (y - mean of y) for each month
            cx == [i \in 1..n |-> n * (i - 1) - Sum([j \in 1..n |-> j - 1])]
            cy == [i \in 1..n |-> n * y[i] - Sum(y)]
            Scc == Sum([i \in 1..n |-> cx[i] * cx[i]])
            Scy == Sum([i \in 1..n |-> cx[i] * cy[i]])
            \* the line's value at x = n, times n * Scc
            value == Sum(y) * Scc + Scy * (n * n - Sum([j \in 1..n |-> j - 1]))
        IN /\ n > 0 => mean.num * n = Sum(y) * mean.den
           /\ n >= 2 =>
                report.projected_next_month * n * Scc
                    = IF value > 0 THEN value ELSE 0
           /\ n < 2 => report.projected_next_month = None
           /\ y = ExampleCounts =>
                /\ mean.num = 4 * mean.den
                /\ report.projected_next_month = 8

\* The owner of document x got a snapshot in this step.
OwnerSnapped(x) ==
    \/ x.employee_id # None /\ Snapped("archived_employees", x.employee_id)
    \/ x.trucker_id # None /\ Snapped("archived_truckers", x.trucker_id)

\* C26: a document whose owner is archived by a sweep leaves the documents
\* table in that sweep, and it gets a snapshot in archived_documents
\* exactly when its upload_date is before the cutoff of the sweep;
\* otherwise it is removed by the owner's cascade without a snapshot.
C26_OwnerArchivedDocumentJudgedByDate ==
    [][ (/\ last'.op = "manual_archive_trigger"
         /\ last'.status = HTTP_200_OK)
        => \A x \in db.documents :
              OwnerSnapped(x) =>
                /\ Removed("documents", x.id)
                /\ Snapped("archived_documents", x.id)
                      <=> x.upload_date < today - last'.arg[1]
      ]_vars

\* C27: the three counts a sweep returns are the numbers of snapshot rows
\* the call added to archived_employees, archived_truckers and
\* archived_documents; the first two are also the numbers of rows the call
\* removed from employees and truckers, and the third is the number of
\* documents removed with a snapshot, not counting those that left only
\* through the cascade of their owner.
C27_SweepCountsExact ==
    [][ (/\ last'.op = "manual_archive_trigger"
         /\ last'.status = HTTP_200_OK)
        => /\ last'.body[1]
                 = Cardinality(db'.archived_employees \ db.archived_employees)
           /\ last'.body[1]
                 = Cardinality(Ids(db.employees) \ Ids(db'.employees))
           /\ last'.body[2]
                 = Cardinality(db'.archived_truckers \ db.archived_truckers)
           /\ last'.body[2]
                 = Cardinality(Ids(db.truckers) \ Ids(db'.truckers))
           /\ last'.body[3]
                 = Cardinality(db'.archived_documents \ db.archived_documents)
           /\ last'.body[3]
                 = Cardinality({x \in db.documents :
                                  /\ Removed("documents", x.id)
                                  /\ Snapped("archived_documents", x.id)})
      ]_vars

\* C27 witness: a sweep archived the inactive employee 1 and reported
\* 1/0/0; the employee's document 1 left with it without a snapshot, and
\* document 2 of the trucker stayed.
C27_Witness ==
    /\ last.op = "manual_archive_trigger"
    /\ last.status = HTTP_200_OK
    /\ last.body = <<1, 0, 0>>
    /\ 1 \in OriginalIds("archived_employees")
    /\ Ids(db.documents) = {2}
    /\ db.archived_documents = {}

\* The requests that create a record, and the archive table of the type
\* each one creates.
CreateOps == {"register_employee", "register_trucker", "upload_document"}

ArchiveOfCreated(op) ==
    CASE op = "register_employee" -> "archived_employees"
      [] op = "register_trucker" -> "archived_truckers"
      [] op = "upload_document" -> "archived_documents"

\* C28: identifiers are never handed out twice within a type: the id a
\* successful create returns is not the original_id of any snapshot in the
\* archive table of that type.
C28_IdsNeverReused ==
    [][ (/\ last'.op \in CreateOps
         /\ last'.status = HTTP_201_CREATED)
        => last'.body[1].id \notin OriginalIds(ArchiveOfCreated(last'.op))
      ]_vars

\* The active tables of persons and the archive table of each.
PersonArchive(table) ==
    CASE table = "employees" -> "archived_employees"
      [] table = "truckers" -> "archived_truckers"

\* No employee or trucker id is in its active table and in its archive
\* table at once.
NeverInBoth ==
    \A t \in {"employees", "truckers"} :
        Ids(db[t]) \cap OriginalIds(PersonArchive(t)) = {}

\* An employee or trucker id that leaves its active table is an original_id
\* of its archive table afterwards, and an original_id stays one.
NeverInNeither ==
    \A t \in {"employees", "truckers"} :
        /\ \A id \in Ids(db[t]) \ Ids(db'[t]) :
               id \in OriginalIds(PersonArchive(t))'
        /\ OriginalIds(PersonArchive(t))
               \subseteq OriginalIds(PersonArchive(t))'

\* C29: no employee or trucker is lost or duplicated: every id a create
\* assigned is in exactly one of its active table and, as original_id, its
\* archive table, never in both and never in neither.
C29_ExactlyOnePlace == []NeverInBoth /\ [][NeverInNeither]_vars

\* C30: the sweep is all-or-nothing across the three types: between its
\* queries and its single commit nothing it staged is visible, and when the
\* commit fails for any employee, trucker or document of the sweep, every
\* active and archive table is as it was before the commit.
C30_SweepAllOrNothing ==
    [][ \A w \in Workers :
          /\ (/\ session[w].pc = "idle"
              /\ session'[w].pc = "loaded"
              /\ session'[w].op = "manual_archive_trigger")
             => db' = db
          /\ (/\ session[w].pc = "loaded"
              /\ session[w].op = "manual_archive_trigger"
              /\ session'[w].pc = "idle"
              /\ last'.status # HTTP_200_OK)
             => db' = db
      ]_vars

\* C30 witness: a sweep ended in an error because the trucker it had
\* loaded was archived meanwhile by another request; the inactive employee
\* it had snapshotted and deleted in its session is still registered
\* without a snapshot, and so is the employee's document.
C30_Witness ==
    /\ last.op = "manual_archive_trigger"
    /\ last.status = HTTP_500_INTERNAL_ERROR
    /\ \E e \in db.employees : e.is_active = FALSE
    /\ db.archived_employees = {}
    /\ db.archived_documents = {}
    /\ db.documents # {}
    /\ db.truckers = {}
    /\ db.archived_truckers # {}

====
